---- MODULE Spec2Model ----
(***************************************************************************)
(* A model of the document-to-sentence structuring core of the Fed text    *)
(* mining repository: the noise filter, the sentence segmenter, the        *)
(* content preprocessor (utils/utilities.py), the minutes section          *)
(* extractor (scraping/process_minutes.py), the press-conference           *)
(* structurer (scraping/process_press_conf.py) with its earlier version    *)
(* (scraping/scrape_press_conf.py), the cleaners, the label normalizers    *)
(* and the sentiment indices (utils/utilities.py), and the label mapping   *)
(* of scripts/5b_advanced_sentiment.py.                                    *)
(*                                                                         *)
(* Python strings are TLA+ strings (sequences of characters); offsets are  *)
(* 0-based as in Python wherever the code handles an offset.  The          *)
(* functions of the code are operators with the code's names; each         *)
(* specification applies them to inputs drawn from bounded sets.           *)
(***************************************************************************)
EXTENDS Integers, Sequences, FiniteSets, TLC

VARIABLES op, arg, tok, res, pc, todo, processed_segments, filtered_segments

vars == <<op, arg, tok, res, pc, todo, processed_segments, filtered_segments>>

(***************************************************************************)
(* Python's str and re primitives                                          *)
(***************************************************************************)

\* s[i], 1-based
Ch(s, i) == SubSeq(s, i, i)

\* the characters str.strip(), str.split() and the regex class \s treat as blank
Whitespace == {" ", "\n", "\t"}

IsSpace(c) == c \in Whitespace

UpperChars == "ABCDEFGHIJKLMNOPQRSTUVWXYZ"

LowerChars == "abcdefghijklmnopqrstuvwxyz"

LowerMap == [c \in {Ch(UpperChars, i) : i \in 1..26} |-> Ch(LowerChars, CHOOSE i \in 1..26 : Ch(UpperChars, i) = c)]

\* The one character whose lower case is longer than itself: U+0130, the capital
\* I with a dot above, written # here.  Its lower case is "i" followed by
\* U+0307, the combining dot above, written ~ here.
DottedCapitalI == "#"

LowerOfDottedCapitalI == "i~"

LowerChar(c) == IF c \in DOMAIN LowerMap THEN LowerMap[c] ELSE IF c = DottedCapitalI THEN LowerOfDottedCapitalI ELSE c

\* str.lower()
RECURSIVE Lower(_)
Lower(s) == IF Len(s) = 0 THEN "" ELSE IF Len(s) = 1 THEN LowerChar(s) ELSE LET h == Len(s) \div 2 IN Lower(SubSeq(s, 1, h)) \o Lower(SubSeq(s, h + 1, Len(s)))

UpperMap == [c \in {Ch(LowerChars, i) : i \in 1..26} |-> Ch(UpperChars, CHOOSE i \in 1..26 : Ch(LowerChars, i) = c)]

UpperChar(c) == IF c \in DOMAIN UpperMap THEN UpperMap[c] ELSE c

\* str.upper()
RECURSIVE Upper(_)
Upper(s) == IF Len(s) = 0 THEN "" ELSE IF Len(s) = 1 THEN UpperChar(s) ELSE LET h == Len(s) \div 2 IN Upper(SubSeq(s, 1, h)) \o Upper(SubSeq(s, h + 1, Len(s)))

SetMin(S) == CHOOSE i \in S : \A j \in S : i <= j

SetMax(S) == CHOOSE i \in S : \A j \in S : j <= i

\* the elements of S within lo..hi in increasing order
RECURSIVE SortRange(_, _, _)
SortRange(S, lo, hi) == IF lo > hi THEN <<>> ELSE IF lo = hi THEN (IF lo \in S THEN <<lo>> ELSE <<>>) ELSE LET m == (lo + hi) \div 2 IN SortRange(S, lo, m) \o SortRange(S, m + 1, hi)

\* the elements of a finite set of positive integers in increasing order
SortedSeq(S) == IF Cardinality(S) <= 12 THEN LET rank == [i \in S |-> Cardinality({j \in S : j <= i})] IN [r \in 1..Cardinality(S) |-> CHOOSE i \in S : rank[i] = r] ELSE SortRange(S, SetMin(S), SetMax(S))

\* the first position >= i of s whose character is not in cs (Len(s) + 1 if none)
RECURSIVE FirstNot(_, _, _)
FirstNot(s, cs, i) == IF i > Len(s) THEN Len(s) + 1 ELSE IF Ch(s, i) \notin cs THEN i ELSE FirstNot(s, cs, i + 1)

\* the last position <= i of s whose character is not in cs (0 if none)
RECURSIVE LastNot(_, _, _)
LastNot(s, cs, i) == IF i < 1 THEN 0 ELSE IF Ch(s, i) \notin cs THEN i ELSE LastNot(s, cs, i - 1)

\* str.strip(chars)
StripChars(s, cs) == LET b == FirstNot(s, cs, 1) IN IF b > Len(s) THEN "" ELSE SubSeq(s, b, LastNot(s, cs, Len(s)))

\* str.strip()
Strip(s) == StripChars(s, Whitespace)

\* the positions where a word of str.split() starts, and where one ends
WordStarts(s) == {i \in 1..Len(s) : ~IsSpace(Ch(s, i)) /\ (i = 1 \/ IsSpace(Ch(s, i - 1)))}

WordEnds(s) == {i \in 1..Len(s) : ~IsSpace(Ch(s, i)) /\ (i = Len(s) \/ IsSpace(Ch(s, i + 1)))}

\* str.split(): the maximal runs of non-blank characters, in order
Split(s) == LET b == SortedSeq(WordStarts(s)) e == SortedSeq(WordEnds(s)) IN [r \in 1..Len(b) |-> SubSeq(s, b[r], e[r])]

\* len(s.split())
WordCount(s) == Cardinality(WordStarts(s))

\* sep.join(seq[lo..hi])
RECURSIVE JoinRange(_, _, _, _)
JoinRange(seq, sep, lo, hi) == IF lo > hi THEN "" ELSE IF lo = hi THEN seq[lo] ELSE LET m == (lo + hi) \div 2 IN JoinRange(seq, sep, lo, m) \o sep \o JoinRange(seq, sep, m + 1, hi)

\* sep.join(seq)
Join(seq, sep) == JoinRange(seq, sep, 1, Len(seq))

\* the concatenation of the sequences seqs[lo..hi]: what a loop of list.extend builds
RECURSIVE FlattenRange(_, _, _)
FlattenRange(seqs, lo, hi) == IF lo > hi THEN <<>> ELSE IF lo = hi THEN seqs[lo] ELSE LET m == (lo + hi) \div 2 IN FlattenRange(seqs, lo, m) \o FlattenRange(seqs, m + 1, hi)

Flatten(seqs) == FlattenRange(seqs, 1, Len(seqs))

\* p in s
Contains(s, p) == \E i \in 1..(Len(s) - Len(p) + 1) : SubSeq(s, i, i + Len(p) - 1) = p

\* s.find(p): the 0-based offset of the first occurrence, or -1
Find(s, p) == LET hits == {i \in 1..(Len(s) - Len(p) + 1) : SubSeq(s, i, i + Len(p) - 1) = p} IN IF hits = {} THEN -1 ELSE SetMin(hits) - 1

\* s[a:b] with 0-based offsets 0 <= a, b <= len(s): empty when a >= b
Slice(s, a, b) == IF a >= b THEN "" ELSE SubSeq(s, a + 1, b)

\* the starts of the matches of the regex (?<=[puncts])\s+ in s: a run of blanks
\* whose preceding character is in puncts (the run is matched whole)
BoundariesAfter(s, puncts) == {i \in 2..Len(s) : IsSpace(Ch(s, i)) /\ Ch(s, i - 1) \in puncts}

\* re.split at the blank runs starting at the positions of M: the text between them
PiecesAt(s, M) == LET m == SortedSeq(M) IN [r \in 1..(Len(m) + 1) |-> SubSeq(s, IF r = 1 THEN 1 ELSE FirstNot(s, Whitespace, m[r - 1]), IF r = Len(m) + 1 THEN Len(s) ELSE m[r] - 1)]

\* re.split(r'(?<=[puncts])\s+', s)
ReSplitAfter(s, puncts) == PiecesAt(s, BoundariesAfter(s, puncts))

\* the matches of the regex \n\s*\n in s, as <<first, last>> positions: in a run
\* of blanks that holds two or more newlines, from its first newline to its last
ParagraphBreaks(s) == LET runs == {i \in 1..Len(s) : IsSpace(Ch(s, i)) /\ (i = 1 \/ ~IsSpace(Ch(s, i - 1)))} newlines(a) == {j \in a..(FirstNot(s, Whitespace, a) - 1) : Ch(s, j) = "\n"} IN {<<SetMin(newlines(a)), SetMax(newlines(a))>> : a \in {b \in runs : Cardinality(newlines(b)) >= 2}}

\* re.split(r'\n\s*\n', s)
ParagraphSplit(s) == LET brk == ParagraphBreaks(s) m == SortedSeq({b[1] : b \in brk}) last(a) == (CHOOSE b \in brk : b[1] = a)[2] IN [r \in 1..(Len(m) + 1) |-> SubSeq(s, IF r = 1 THEN 1 ELSE last(m[r - 1]) + 1, IF r = Len(m) + 1 THEN Len(s) ELSE m[r] - 1)]

\* w repeated n times, joined by single spaces (builds the inputs)
RECURSIVE Rep(_, _)
Rep(w, n) == IF n = 0 THEN "" ELSE IF n = 1 THEN w ELSE LET h == n \div 2 IN Rep(w, h) \o " " \o Rep(w, n - h)

(***************************************************************************)
(* utils/utilities.py: the noise filter                                    *)
(***************************************************************************)

noise_phrases == <<"Thank you", "Thanks", "You're on mute", "Can you hear me", "[No response]", "(No response)", "hearing no objection", "so moved", "second", "all in favor", "aye", "Return to text">>

\* phrase.lower(), for each phrase
noise_phrases_lower == [k \in 1..Len(noise_phrases) |-> Lower(noise_phrases[k])]

is_noise_content_no_lower(text) == LET text_lower == StripChars(text, {".", ",", " "}) IN IF Len(text) < 5 THEN TRUE ELSE \E k \in 1..Len(noise_phrases) : \/ text_lower = noise_phrases_lower[k] \/ (Len(text) < 30 /\ Contains(text_lower, noise_phrases_lower[k]))

is_noise_content_any_length(text) == LET text_lower == StripChars(Lower(text), {".", ",", " "}) IN IF Len(text) < 5 THEN TRUE ELSE \E k \in 1..Len(noise_phrases) : \/ text_lower = noise_phrases_lower[k] \/ Contains(text_lower, noise_phrases_lower[k])

\* the loop over the phrases returns True at the first phrase that matches
is_noise_content(text) == LET text_lower == StripChars(Lower(text), {".", ",", " "}) IN IF Len(text) < 5 THEN TRUE ELSE \E k \in 1..Len(noise_phrases) : \/ text_lower = noise_phrases_lower[k] \/ (Len(text) < 30 /\ Contains(text_lower, noise_phrases_lower[k]))

(***************************************************************************)
(* utils/utilities.py: the sentence segmenter                              *)
(***************************************************************************)

\* nltk's sent_tokenize is a library: a sentence can end only at a blank run that
\* follows '.', '!' or '?', and the tokenizer decides at which of them it does
\* (it keeps an abbreviation's period inside the sentence).  tok is that decision.
TokModes == {"all", "none", "first", "last"}

sent_tokenize(mode, text) == LET cand == BoundariesAfter(text, {".", "!", "?"}) cut == IF cand = {} \/ mode = "none" THEN {} ELSE IF mode = "first" THEN {SetMin(cand)} ELSE IF mode = "last" THEN {SetMax(cand)} ELSE cand IN IF Strip(text) = "" THEN <<>> ELSE PiecesAt(Strip(text), {i - (FirstNot(text, Whitespace, 1) - 1) : i \in {j \in cut : j > FirstNot(text, Whitespace, 1) /\ j <= LastNot(text, Whitespace, Len(text))}})

keep_comma_part_chars_only(comma_part) == Len(comma_part) >= 20

\* line 61: a comma-delimited sub-part is kept
keep_comma_part(comma_part) == WordCount(comma_part) >= 5 /\ Len(comma_part) >= 20

\* line 55: a punctuation-delimited part is substantial
keep_part(part) == WordCount(part) >= 5 /\ Len(part) >= 30 /\ ~is_noise_content(part)

\* lines 52-64: what one part adds to valid_parts
parts_of(raw_part) == LET part == Strip(raw_part) IN IF keep_part(part) THEN IF WordCount(part) > 40 THEN LET comma_parts == ReSplitAfter(part, {","}) IN Flatten([j \in 1..Len(comma_parts) |-> IF keep_comma_part(Strip(comma_parts[j])) THEN <<Strip(comma_parts[j])>> ELSE <<>>]) ELSE <<part>> ELSE <<>>

valid_parts_of(sentence) == LET parts == ReSplitAfter(sentence, {".", "!", "?", ";"}) IN Flatten([i \in 1..Len(parts) |-> parts_of(parts[i])])

split_long_sentence_no_fallback(sentence) == valid_parts_of(sentence)

split_long_sentence(sentence) == LET valid_parts == valid_parts_of(sentence) IN IF valid_parts # <<>> THEN valid_parts ELSE <<sentence>>

basic_filter_words_only(sent) == ~(WordCount(sent) < 5) /\ ~is_noise_content(sent)

\* lines 136-139: the sentence passes the basic filtering
basic_filter(sent) == ~(WordCount(sent) < 5 \/ Len(sent) < 30) /\ ~is_noise_content(sent)

sentences_of_keep_long(raw_sent) == LET sent == Strip(raw_sent) IN IF ~basic_filter(sent) THEN <<>> ELSE <<sent>>

\* lines 132-146: what one tokenized sentence adds to valid_sentences
sentences_of(raw_sent) == LET sent == Strip(raw_sent) IN IF ~basic_filter(sent) THEN <<>> ELSE IF WordCount(sent) > 30 THEN split_long_sentence(sent) ELSE <<sent>>

split_into_sentences_robust(mode, text) == IF text = "" \/ Len(Strip(text)) < 10 THEN <<>> ELSE LET sentences == sent_tokenize(mode, text) IN Flatten([i \in 1..Len(sentences) |-> sentences_of(sentences[i])])

(***************************************************************************)
(* utils/utilities.py: the content preprocessor                            *)
(***************************************************************************)

force_split_keep_remainder(text) == LET words == Split(text) IN Flatten([w \in 1..((Len(words) + 49) \div 50) |-> <<Join(SubSeq(words, 50 * (w - 1) + 1, IF 50 * w < Len(words) THEN 50 * w ELSE Len(words)), " ")>>])

\* for i in range(0, len(words), 50): the window words[i:i+50], kept from 3 words on
force_split_long_segment(text) == LET words == Split(text) IN Flatten([w \in 1..((Len(words) + 49) \div 50) |-> LET segment_words == SubSeq(words, 50 * (w - 1) + 1, IF 50 * w < Len(words) THEN 50 * w ELSE Len(words)) IN IF Len(segment_words) >= 3 THEN <<Join(segment_words, " ")>> ELSE <<>>])

\* lines 97-103: what one candidate sentence of a long paragraph adds
segments_of_sentence(raw_sent) == LET sent == Strip(raw_sent) IN IF WordCount(sent) > 15 THEN LET sub_parts == ReSplitAfter(sent, {";", ":", ","}) IN Flatten([j \in 1..Len(sub_parts) |-> IF Strip(sub_parts[j]) # "" /\ WordCount(sub_parts[j]) >= 3 THEN <<Strip(sub_parts[j])>> ELSE <<>>]) ELSE <<sent>>

\* lines 90-105: what one paragraph adds to processed_segments
segments_of_paragraph(raw_para) == LET para == Strip(raw_para) IN IF para = "" THEN <<>> ELSE IF WordCount(para) > 100 THEN LET sentences == ReSplitAfter(para, {".", "!", "?"}) IN Flatten([i \in 1..Len(sentences) |-> segments_of_sentence(sentences[i])]) ELSE <<para>>

filtered_of_no_force_split(seg) == IF 3 <= WordCount(seg) THEN <<seg>> ELSE <<>>

\* lines 109-114: what one processed segment adds to filtered_segments
filtered_of(seg) == IF 3 <= WordCount(seg) /\ WordCount(seg) <= 100 THEN <<seg>> ELSE IF WordCount(seg) > 100 THEN force_split_long_segment(seg) ELSE <<>>

\* the function as a whole, as its callers use it
preprocess_content(text) == LET paragraphs == ParagraphSplit(text) processed == Flatten([i \in 1..Len(paragraphs) |-> segments_of_paragraph(paragraphs[i])]) IN Flatten([i \in 1..Len(processed) |-> filtered_of(processed[i])])

(***************************************************************************)
(* Inputs of the segmenter: texts made of groups, a group being k clauses  *)
(* of n copies of a word followed by a terminator                          *)
(***************************************************************************)

MaxGroups == 2

Grp(w, n, t, k) == [w |-> w, n |-> n, t |-> t, k |-> k]

GroupText(g) == Rep(Rep(g.w, g.n) \o g.t, g.k)

SegGroups == {Grp("market", 5, ".", 1), Grp("a", 5, ".", 1), Grp("market", 31, "", 1), Grp("a", 10, ",", 1), Grp("market", 3, ",", 14), Grp("market", 4, ";", 8), Grp("market", 6, ";", 6), Grp("Thanks", 1, "", 1), Grp(",", 14, "", 1), Grp("market", 41, "", 1), Grp(" rates ", 6, "?", 1), Grp("Thank you very much", 1, ".", 1)}

GroupSeqs(G, n) == UNION {[1..k -> G] : k \in 1..n}

SegTexts == {Join([i \in 1..Len(gs) |-> GroupText(gs[i])], " ") : gs \in GroupSeqs(SegGroups, MaxGroups)}

\* inputs of the noise filter: a core (a noise phrase in three letter cases, or
\* other words) between a prefix and a suffix
NoiseCores == {noise_phrases[k] : k \in 1..Len(noise_phrases)} \cup {Lower(noise_phrases[k]) : k \in 1..Len(noise_phrases)} \cup {Upper(noise_phrases[k]) : k \in 1..Len(noise_phrases)} \cup {"", "ok", "rates", "inflation is high"}

NoisePrefixes == {"", ". ", "Well, ", "I would like to say to everybody "}

NoiseSuffixes == {"", ".", " very much.", "..............................", " for that interesting question."}

NoiseTexts == {pre \o core \o post : pre \in NoisePrefixes, core \in NoiseCores, post \in NoiseSuffixes}

(***************************************************************************)
(* The specification of the segmenter and the noise filter                 *)
(***************************************************************************)

Init == op = "init" /\ arg = "" /\ tok = "all" /\ res = <<>> /\ pc = "idle" /\ todo = <<>> /\ processed_segments = <<>> /\ filtered_segments = <<>>

Segment == op = "init" /\ \E text \in SegTexts, mode \in TokModes : op' = "split_into_sentences_robust" /\ arg' = text /\ tok' = mode /\ res' = split_into_sentences_robust(mode, text) /\ UNCHANGED <<pc, todo, processed_segments, filtered_segments>>

Noise == op = "init" /\ \E text \in NoiseTexts : op' = "is_noise_content" /\ arg' = text /\ res' = is_noise_content(text) /\ UNCHANGED <<tok, pc, todo, processed_segments, filtered_segments>>

NextSeg == Segment \/ Noise

SpecSeg == Init /\ [][NextSeg]_vars

(***************************************************************************)
(* The specification of split_long_sentence called on its own              *)
(***************************************************************************)

SplitLong == op = "init" /\ \E sentence \in SegTexts : op' = "split_long_sentence" /\ arg' = sentence /\ res' = split_long_sentence(sentence) /\ UNCHANGED <<tok, pc, todo, processed_segments, filtered_segments>>

NextLong == SplitLong

SpecLong == Init /\ [][NextLong]_vars

(***************************************************************************)
(* The specification of force_split_long_segment called on its own: texts  *)
(* of up to MaxWords numbered words, separated by one blank or by a run of *)
(* whitespace                                                              *)
(***************************************************************************)

MaxWords == 104

NumberedWords(n) == [i \in 1..n |-> "w" \o ToString(i)]

WordSeparators == {" ", "  \n"}

WordTexts == {Join(NumberedWords(n), sep) : n \in 0..MaxWords, sep \in WordSeparators}

ForceSplit == op = "init" /\ \E text \in WordTexts : op' = "force_split_long_segment" /\ arg' = text /\ res' = force_split_long_segment(text) /\ UNCHANGED <<tok, pc, todo, processed_segments, filtered_segments>>

NextForce == ForceSplit

SpecForce == Init /\ [][NextForce]_vars


(***************************************************************************)
(* The specification of the content preprocessor: preprocess_content run   *)
(* loop by loop.  pc is the loop the call is in, todo what that loop has   *)
(* still to visit.                                                         *)
(***************************************************************************)

MaxParts == 2

PreGroups == {Grp("a", 101, "", 1), Grp("a", 103, "", 1), Grp("a", 2, ".", 51), Grp("a", 16, ",", 7), Grp("rate", 20, ".", 6), Grp("rate", 4, ".", 1), Grp("a", 2, "", 1)}

PreSeparators == {" ", "\n\n", "\n \t\n "}

RECURSIVE JoinWith(_, _, _)
JoinWith(gs, seps, n) == IF n = 1 THEN GroupText(gs[1]) ELSE JoinWith(gs, seps, n - 1) \o seps[n - 1] \o GroupText(gs[n])

PreTexts == {JoinWith(gs, seps, Len(gs)) : gs \in GroupSeqs(PreGroups, MaxParts), seps \in [1..(MaxParts - 1) -> PreSeparators]} \cup {"", " \n\n "}

PreStart == pc = "idle" /\ op = "init" /\ \E text \in PreTexts : op' = "preprocess_content" /\ arg' = text /\ todo' = ParagraphSplit(text) /\ processed_segments' = <<>> /\ filtered_segments' = <<>> /\ pc' = "paragraphs" /\ UNCHANGED <<tok, res>>

\* for para in paragraphs: one iteration
MoreParagraphs == pc = "paragraphs" /\ todo # <<>>

PreParagraph == MoreParagraphs /\ processed_segments' = processed_segments \o segments_of_paragraph(Head(todo)) /\ todo' = Tail(todo) /\ UNCHANGED <<op, arg, tok, res, pc, filtered_segments>>

\* the loop over the paragraphs is over: on to the final cleanup
ParagraphsDone == pc = "paragraphs" /\ todo = <<>>

PreCleanup == ParagraphsDone /\ pc' = "cleanup" /\ todo' = processed_segments /\ UNCHANGED <<op, arg, tok, res, processed_segments, filtered_segments>>

\* for seg in processed_segments: one iteration
MoreSegments == pc = "cleanup" /\ todo # <<>>

PreFilter == MoreSegments /\ filtered_segments' = filtered_segments \o filtered_of(Head(todo)) /\ todo' = Tail(todo) /\ UNCHANGED <<op, arg, tok, res, pc, processed_segments>>

\* return filtered_segments
SegmentsDone == pc = "cleanup" /\ todo = <<>>

PreReturn == SegmentsDone /\ pc' = "done" /\ res' = filtered_segments /\ UNCHANGED <<op, arg, tok, todo, processed_segments, filtered_segments>>

NextPre == PreStart \/ PreParagraph \/ PreCleanup \/ PreFilter \/ PreReturn

SpecPre == Init /\ [][NextPre]_vars

(***************************************************************************)
(* scraping/process_minutes.py: the section extractor                      *)
(***************************************************************************)

\* section_patterns, in the order of the dict.  The typographic apostrophe of the
\* third alias of "Participants' Views" (U+2019) is written ^ here.
section_names == <<"Developments in Financial Markets", "Inflation Analysis", "Staff Review of Economic Situation", "Staff Review of Financial Situation", "Staff Economic Outlook", "Participants' Views", "Committee Policy Action">>

section_keywords == <<<<"Developments in Financial Markets and Open Market Operations">>, <<"Inflation Analysis and Forecasting">>, <<"Staff Review of the Economic Situation", "The information reviewed for the">>, <<"Staff Review of the Financial Situation">>, <<"Staff Economic Outlook">>, <<"Participants' Views on Current Conditions and the Economic Outlook", "Participants' Views on Current Conditions", "Participants^ Views on Current Conditions", "Discussion of Monetary Policy">>, <<"Committee Policy Action">>>>

\* keyword.lower(), for each keyword of each section
section_keywords_lower == [n \in 1..Len(section_keywords) |-> [k \in 1..Len(section_keywords[n]) |-> Lower(section_keywords[n][k])]]

\* the variant that takes, of the aliases that occur, the one occurring earliest
first_keyword_earliest_offset(text_lower, n) == LET found == {k \in 1..Len(section_keywords[n]) : Find(text_lower, section_keywords_lower[n][k]) # -1} IN IF found = {} THEN 0 ELSE CHOOSE k \in found : \A j \in found : (Find(text_lower, section_keywords_lower[n][k]) < Find(text_lower, section_keywords_lower[n][j])) \/ ((Find(text_lower, section_keywords_lower[n][k]) = Find(text_lower, section_keywords_lower[n][j])) /\ (k <= j))

\* lines 69-79: the first keyword of section n that occurs in the text (0 if none)
first_keyword(text_lower, n) == LET found == {k \in 1..Len(section_keywords[n]) : Find(text_lower, section_keywords_lower[n][k]) # -1} IN IF found = {} THEN 0 ELSE SetMin(found)

\* lines 65-79: matches, one per section that has a keyword in the text, in dict order
find_matches(text) == LET text_lower == Lower(text) IN Flatten([n \in 1..Len(section_names) |-> LET k == first_keyword(text_lower, n) IN IF k = 0 THEN <<>> ELSE LET idx == Find(text_lower, section_keywords_lower[n][k]) IN <<[section_name |-> section_names[n], start_index |-> idx, header_length |-> Len(section_keywords[n][k]), priority |-> idx]>>])

sort_matches_not_sorted(matches) == matches

\* line 85: list.sort(key=priority), a stable sort
sort_matches(matches) == LET rank(i) == Cardinality({j \in 1..Len(matches) : matches[j].priority < matches[i].priority \/ (matches[j].priority = matches[i].priority /\ j <= i)}) IN [r \in 1..Len(matches) |-> matches[CHOOSE i \in 1..Len(matches) : rank(i) = r]]

\* lines 90-108: one record per match; start_index, content_start and end are the
\* loop's local variables, kept beside the two fields the code returns
slice_sections(text, matches) == [i \in 1..Len(matches) |-> LET content_start == matches[i].start_index + matches[i].header_length end == IF i < Len(matches) THEN matches[i + 1].start_index ELSE Len(text) IN [section_name |-> matches[i].section_name, section_text |-> Strip(Slice(text, content_start, end)), start_index |-> matches[i].start_index, content_start |-> content_start, end |-> end]]

extract_sections(text) == LET matches == find_matches(text) IN IF matches = <<>> THEN <<>> ELSE slice_sections(text, sort_matches(matches))

(***************************************************************************)
(* scraping/process_minutes.py: segment_sentences                          *)
(***************************************************************************)

minutes_noise_phrases == <<"meeting adjourned", "vote against", "voting for this action", "voting against this action">>

\* re.sub(r'\s+', ' ', s).strip()
CollapseBlanks(s) == Join(Split(s), " ")

\* lines 143-168: the rows of one section
rows_of_section(mode, doc_id, date, section) == LET section_content == CollapseBlanks(section.section_text) sentences == sent_tokenize(mode, section_content) IN Flatten([i \in 1..Len(sentences) |-> LET sent == Strip(sentences[i]) IN IF WordCount(sent) < 5 THEN <<>> ELSE IF \E k \in 1..Len(minutes_noise_phrases) : Contains(Lower(sent), minutes_noise_phrases[k]) THEN <<>> ELSE <<[original_doc_id |-> doc_id, date |-> date, section |-> section.section_name, sentence_text |-> sent, source_type |-> "Minutes"]>>])

\* lines 121-168: the rows of one document
rows_of_document(mode, doc_id, row) == LET sections == extract_sections(row.text) IN Flatten([i \in 1..Len(sections) |-> rows_of_section(mode, doc_id, row.date, sections[i])])

\* the loop stops at the first document without sections
segment_sentences_break(mode, df) == LET bad == {d \in 1..Len(df) : extract_sections(df[d].text) = <<>>} IN Flatten([d \in 1..Len(df) |-> IF \E b \in bad : b <= d THEN <<>> ELSE rows_of_document(mode, d - 1, df[d])])

\* lines 116-170: for idx, row in df.iterrows(), idx counting from 0; a document
\* without sections is skipped (continue)
segment_sentences(mode, df) == Flatten([d \in 1..Len(df) |-> IF extract_sections(df[d].text) = <<>> THEN <<>> ELSE rows_of_document(mode, d - 1, df[d])])

(***************************************************************************)
(* The specification of the minutes path                                   *)
(***************************************************************************)

MaxPieces == 3

MaxDocs == 2

MinutesPieces == {"Staff Review of the Economic Situation", "The information reviewed for the", "Committee Policy Action", "PARTICIPANTS' VIEWS ON CURRENT CONDITIONS", "meeting suggested that economic activity expanded at a moderate pace.", "Members voted.  Voting against this action was Mr. Smith of Texas.", "Participants^ Views on Current ConditionStaff Economic Outlook", "Held in #stanbul."}

MinutesTexts == {Join(ps, " ") : ps \in GroupSeqs(MinutesPieces, MaxPieces)}

BatchTexts == {"meeting suggested that economic activity expanded at a moderate pace.", "Staff Review of the Economic Situation The information reviewed for the meeting suggested that growth slowed. Members voted. Committee Policy Action The Committee decided to maintain the target range.", "Committee Policy Action Voting against this action was Mr. Smith of Texas. Staff Economic Outlook\n The staff projected that real growth would pick up."}

BatchDates == {"2019-01-30", "2020-03-15"}

BatchRows == [text : BatchTexts, date : BatchDates]

Extract == op = "init" /\ \E text \in MinutesTexts : op' = "extract_sections" /\ arg' = text /\ res' = extract_sections(text) /\ UNCHANGED <<tok, pc, todo, processed_segments, filtered_segments>>

SegmentMinutes == op = "init" /\ \E df \in GroupSeqs(BatchRows, MaxDocs), mode \in TokModes : op' = "segment_sentences" /\ arg' = df /\ tok' = mode /\ res' = segment_sentences(mode, df) /\ UNCHANGED <<pc, todo, processed_segments, filtered_segments>>

NextMin == Extract \/ SegmentMinutes

SpecMin == Init /\ [][NextMin]_vars

(***************************************************************************)
(* scraping/process_press_conf.py: the Q&A split of _structure_press_conf  *)
(***************************************************************************)

split_markers == <<"I will now take your questions", "I am happy to take your questions", "I'm happy to take your questions", "happy to take your questions", "happy to respond to your questions", "We will now take questions", "Q & A", "MICHELLE SMITH. Thank you", "MICHELLE SMITH. We will now go to", "MICHELLE SMITH. We'll go to", "MICHELLE SMITH. Let's go to", "MICHELLE SMITH. Our first question", "I'll be happy to take your questions", "I will be happy to take your questions", "we'll be happy to take your questions", "MICHELLE SMITH.", "look forward to your questions", "I look forward to your questions", "I look forward to taking your questions", "I would be happy to take your questions">>

\* marker.lower(), for each marker
split_markers_lower == [m \in 1..Len(split_markers) |-> Lower(split_markers[m])]

\* float('inf'): above every offset of the text
Infinity(text) == Len(text) + 1

first_listed_marker(text_lower, m, min_idx) == LET found == {k \in 1..Len(split_markers) : Find(text_lower, split_markers_lower[k]) # -1} IN IF found = {} THEN Infinity(text_lower) ELSE Find(text_lower, split_markers_lower[SetMin(found)])

\* lines 188-192: the loop over the markers from the m-th on; min_idx is the
\* smallest offset found so far
RECURSIVE scan_markers(_, _, _)
scan_markers(text_lower, m, min_idx) == IF m > Len(split_markers) THEN min_idx ELSE LET idx == Find(text_lower, split_markers_lower[m]) IN scan_markers(text_lower, m + 1, IF idx # -1 /\ idx < min_idx THEN idx ELSE min_idx)

\* lines 181-198: split_idx, -1 when no marker occurs
split_index(text) == LET text_lower == Lower(text) min_idx == scan_markers(text_lower, 1, Infinity(text_lower)) IN IF min_idx # Infinity(text_lower) THEN min_idx ELSE -1

(***************************************************************************)
(* scraping/process_press_conf.py: the speaker filter.  The speaker        *)
(* pattern is (?:^|\s)([A-Z\s\.\''-]{3,}|<preamble>)\s*[\.\:] ; offsets    *)
(* are 0-based.                                                            *)
(***************************************************************************)

\* the character class [A-Z\s\.\''-]
SpeakerClass == {Ch(UpperChars, i) : i \in 1..26} \cup Whitespace \cup {".", "'", "-"}

\* the second alternative of the group
preamble_label == "Transcript of the Federal Open Market Committee Conference Call"

\* the character class [\.\:]
LabelEnd == {".", ":"}

NoMatch == [ok |-> FALSE, gstart |-> 0, gstop |-> 0, end |-> 0]

\* the group and the tail \s*[\.\:] matched from offset j; preamble tells
\* whether the pattern has the literal alternative (it has in
\* _extract_speaker_segments, not in _process_conf_call).  The greedy {3,}
\* takes the run of class characters from j and gives characters back until a
\* '.' or ':' follows: the group stops at the last such character that leaves
\* it 3 characters or more.  The literal alternative is tried when that fails.
label_at(text, j, preamble) == LET e == FirstNot(text, SpeakerClass, j + 1) - 1 terms == {t \in (j + 3)..e : t < Len(text) /\ Ch(text, t + 1) \in LabelEnd} k == FirstNot(text, Whitespace, j + Len(preamble_label) + 1) - 1 IN IF terms # {} THEN [ok |-> TRUE, gstart |-> j, gstop |-> SetMax(terms), end |-> SetMax(terms) + 1] ELSE IF preamble /\ j + Len(preamble_label) <= Len(text) /\ Slice(text, j, j + Len(preamble_label)) = preamble_label /\ k < Len(text) /\ Ch(text, k + 1) \in LabelEnd THEN [ok |-> TRUE, gstart |-> j, gstop |-> j + Len(preamble_label), end |-> k + 1] ELSE NoMatch

\* the match of the pattern that starts at offset i: (?:^|\s) is the start of
\* the text or, failing that, one blank
match_at(text, i, preamble) == IF i = 0 /\ label_at(text, 0, preamble).ok THEN label_at(text, 0, preamble) ELSE IF i < Len(text) /\ IsSpace(Ch(text, i + 1)) THEN label_at(text, i + 1, preamble) ELSE NoMatch

\* the successive matches of the pattern from offset pos on, leftmost first,
\* each search resuming where the previous match ended
RECURSIVE matches_from(_, _, _, _)
matches_from(text, hits, pos, preamble) == LET later == {i \in hits : i >= pos} IN IF later = {} THEN <<>> ELSE LET i == SetMin(later) m == match_at(text, i, preamble) IN <<[start |-> i, gstart |-> m.gstart, gstop |-> m.gstop, end |-> m.end]>> \o matches_from(text, hits, m.end, preamble)

\* pattern.split(text): [before, label, content, label, content, ...]
pattern_split(text, preamble) == LET hits == {i \in 0..(Len(text) - 1) : match_at(text, i, preamble).ok} ms == matches_from(text, hits, 0, preamble) IN [r \in 1..(2 * Len(ms) + 1) |-> IF r % 2 = 0 THEN Slice(text, ms[r \div 2].gstart, ms[r \div 2].gstop) ELSE Slice(text, IF r = 1 THEN 0 ELSE ms[(r - 1) \div 2].end, IF r = 2 * Len(ms) + 1 THEN Len(text) ELSE ms[(r + 1) \div 2].start)]

\* line 290: the turn is one of the target speaker
is_target_speaker(speaker) == Contains(speaker, "POWELL") \/ Contains(speaker, "TRANSCRIPT OF THE FEDERAL")

\* lines 292-293: a title left in the first 100 characters cuts the content
cut_title(content) == IF Contains(Slice(content, 0, IF Len(content) < 100 THEN Len(content) ELSE 100), "Transcript of") THEN Slice(content, 0, Find(content, "Transcript of")) ELSE content

\* lines 298-304: the sentences of the content of a turn
sentences_of_content(mode, content) == IF Len(content) > 10 THEN LET content_segments == preprocess_content(content) IN Flatten([s \in 1..Len(content_segments) |-> IF Len(Strip(content_segments[s])) > 10 THEN split_into_sentences_robust(mode, content_segments[s]) ELSE <<>>]) ELSE <<>>

sentences_of_turn_any_speaker(mode, raw_speaker, raw_content) == LET content == cut_title(Strip(raw_content)) IN IF is_noise_content(content) THEN <<>> ELSE sentences_of_content(mode, content)

\* lines 285-304: the body of the loop over the turns
sentences_of_turn(mode, raw_speaker, raw_content) == LET speaker == Upper(Strip(raw_speaker)) content == cut_title(Strip(raw_content)) IN IF ~is_target_speaker(speaker) THEN <<>> ELSE IF is_noise_content(content) THEN <<>> ELSE sentences_of_content(mode, content)

_extract_speaker_segments(mode, text, is_qa) == LET parts == pattern_split(text, TRUE) IN IF Len(parts) < 2 THEN (IF ~is_qa /\ text # "" THEN split_into_sentences_robust(mode, text) ELSE <<>>) ELSE Flatten([t \in 1..((Len(parts) - 1) \div 2) |-> sentences_of_turn(mode, parts[2 * t], parts[2 * t + 1])])

\* lines 211, 219, 225: the records of a list of sentences
records_of(date_str, section, sentences) == [i \in 1..Len(sentences) |-> [date |-> date_str, section |-> section, text |-> sentences[i]]]

segments_at_opening_from_all(mode, text, date_str, split_idx) == IF split_idx # -1 THEN records_of(date_str, "Opening Statement", _extract_speaker_segments(mode, text, FALSE)) \o records_of(date_str, "Q&A", _extract_speaker_segments(mode, Slice(text, split_idx, Len(text)), TRUE)) ELSE records_of(date_str, "Full Text", _extract_speaker_segments(mode, text, FALSE))

\* lines 200-228
segments_at(mode, text, date_str, split_idx) == IF split_idx # -1 THEN records_of(date_str, "Opening Statement", _extract_speaker_segments(mode, Slice(text, 0, split_idx), FALSE)) \o records_of(date_str, "Q&A", _extract_speaker_segments(mode, Slice(text, split_idx, Len(text)), TRUE)) ELSE records_of(date_str, "Full Text", _extract_speaker_segments(mode, text, FALSE))

_structure_press_conf(mode, text, date_str) == segments_at(mode, text, date_str, split_index(text))

\* the variant that keeps the turns of the chair only, as the press-conference
\* filter does
records_of_call_turn_target_only(mode, date_str, raw_speaker, raw_content) == LET speaker == Upper(Strip(raw_speaker)) content == Strip(raw_content) IN IF ~is_target_speaker(speaker) THEN <<>> ELSE IF is_noise_content(content) THEN <<>> ELSE LET sentences == sentences_of_content(mode, content) IN [i \in 1..Len(sentences) |-> [date |-> date_str, section |-> "Conference Call", speaker |-> speaker, text |-> sentences[i]]]

\* lines 243-263: the records of a turn of a conference call
records_of_call_turn(mode, date_str, raw_speaker, raw_content) == LET speaker == Upper(Strip(raw_speaker)) content == Strip(raw_content) IN IF is_noise_content(content) THEN <<>> ELSE IF Contains(speaker, "TRANSCRIPT OF") \/ Contains(speaker, "PAGE") THEN <<>> ELSE LET sentences == sentences_of_content(mode, content) IN [i \in 1..Len(sentences) |-> [date |-> date_str, section |-> "Conference Call", speaker |-> speaker, text |-> sentences[i]]]

_process_conf_call(mode, text, date_str) == LET parts == pattern_split(text, FALSE) IN IF Len(parts) >= 2 THEN Flatten([t \in 1..((Len(parts) - 1) \div 2) |-> records_of_call_turn(mode, date_str, parts[2 * t], parts[2 * t + 1])]) ELSE <<>>

(***************************************************************************)
(* utils/utilities.py: clean_common_noise, and the _clean_noise of         *)
(* scraping/process_press_conf.py.  The patterns are searched with         *)
(* re.IGNORECASE in a stripped line: they are matched here against the     *)
(* lower-cased line.                                                       *)
(***************************************************************************)

Digits == {"0", "1", "2", "3", "4", "5", "6", "7", "8", "9"}

Letters == {Ch(LowerChars, i) : i \in 1..26} \cup {Ch(UpperChars, i) : i \in 1..26}

\* str.isdigit()
IsDigitStr(s) == s # "" /\ \A i \in 1..Len(s) : Ch(s, i) \in Digits

\* s.startswith(p) from the 1-based position i
StartsAt(s, i, p) == i >= 1 /\ i + Len(p) - 1 <= Len(s) /\ SubSeq(s, i, i + Len(p) - 1) = p

\* text.split('\n'): the lines, empty ones included
SplitLines(text) == LET nl == SortedSeq({i \in 1..Len(text) : Ch(text, i) = "\n"}) IN [r \in 1..(Len(nl) + 1) |-> SubSeq(text, IF r = 1 THEN 1 ELSE nl[r - 1] + 1, IF r = Len(nl) + 1 THEN Len(text) ELSE nl[r] - 1)]

\* Page \d+ of \d+
page_of_pattern(l) == \E i \in 1..Len(l) : StartsAt(l, i, "page ") /\ (LET b == FirstNot(l, Digits, i + 5) IN b > i + 5 /\ StartsAt(l, b, " of ") /\ b + 4 <= Len(l) /\ Ch(l, b + 4) \in Digits)

\* Transcript of .* Press Conference
transcript_of_pattern(l) == \E i \in 1..Len(l) : StartsAt(l, i, "transcript of ") /\ \E j \in (i + 14)..Len(l) : StartsAt(l, j, " press conference")

\* ^[A-Z][a-z]+ \d{1,2}, 20\d{2}$
date_line_pattern(l) == LET k == FirstNot(l, Letters, 1) rest == SubSeq(l, k, Len(l)) day == IF Len(rest) = 8 THEN 1 ELSE 2 IN k >= 3 /\ Len(rest) \in {8, 9} /\ Ch(rest, 1) = " " /\ IsDigitStr(SubSeq(rest, 2, 1 + day)) /\ SubSeq(rest, 2 + day, 5 + day) = ", 20" /\ IsDigitStr(SubSeq(rest, 6 + day, 7 + day))

\* the variant that matches every pattern against the whole line instead of
\* searching it in the line
is_common_artifact_whole_line(line) == LET l == Lower(line) IN (page_of_pattern(l) /\ StartsAt(l, 1, "page ") /\ Ch(l, Len(l)) \in Digits) \/ l = "final" \/ (transcript_of_pattern(l) /\ StartsAt(l, 1, "transcript of ")) \/ date_line_pattern(l) \/ StartsAt(l, 1, "section header") \/ l = "return to text"

\* lines 156-163 and 169-173: the line matches one of the artifact patterns
is_common_artifact(line) == LET l == Lower(line) IN page_of_pattern(l) \/ l = "final" \/ transcript_of_pattern(l) \/ date_line_pattern(l) \/ StartsAt(l, 1, "section header") \/ Contains(l, "return to text")

\* lines 165-175: the lines kept
kept_common_lines(text) == LET lines == SplitLines(text) IN Flatten([i \in 1..Len(lines) |-> LET line == Strip(lines[i]) IN IF line = "" \/ IsDigitStr(line) \/ is_common_artifact(line) THEN <<>> ELSE <<line>>])

clean_common_noise(text) == Join(kept_common_lines(text), " ")

\* lines 134-137: Chair(man)? Powell['']?s? Press Conference, and the same
\* with Call
is_title_line(line) == LET l == Lower(line) IN \E chair \in {"chair", "chairman"}, quote \in {"", "'"}, s \in {"", "s"} : Contains(l, chair \o " powell" \o quote \o s \o " press conference")

\* lines 132-150: the lines are those of the text clean_common_noise returns
_clean_noise(raw_text) == LET text == clean_common_noise(raw_text) lines == SplitLines(text) IN Join(Flatten([i \in 1..Len(lines) |-> LET line == Strip(lines[i]) IN IF line = "" \/ is_title_line(line) THEN <<>> ELSE <<line>>]), " ")

(***************************************************************************)
(* The specification of the cleaners: raw texts of up to MaxLines lines,   *)
(* body lines with and without surrounding blanks, layout artifacts, and   *)
(* the title of a press conference                                         *)
(***************************************************************************)

MaxLines == 2

RawLines == {"CHAIR POWELL. Good afternoon.", "Page 3 of 25", " FINAL ", "12", "", "March 22, 2023", "Transcript of Chair Powell's Press Conference", "Chair Powell's Press Conference", "  Inflation remains elevated.  ", "FINAL results", "see page 4 of 9 for details"}

RawTexts == {Join(ls, "\n") : ls \in GroupSeqs(RawLines, MaxLines)}

CleanCommon == op = "init" /\ \E text \in RawTexts : op' = "clean_common_noise" /\ arg' = text /\ res' = clean_common_noise(text) /\ UNCHANGED <<tok, pc, todo, processed_segments, filtered_segments>>

CleanNoise == op = "init" /\ \E text \in RawTexts : op' = "_clean_noise" /\ arg' = text /\ res' = _clean_noise(text) /\ UNCHANGED <<tok, pc, todo, processed_segments, filtered_segments>>

NextClean == CleanCommon \/ CleanNoise

SpecClean == Init /\ [][NextClean]_vars


(***************************************************************************)
(* scraping/process_press_conf.py: process_pdfs and the text extraction.   *)
(* A file is a name and what pdfplumber gives for it: whether it opens     *)
(* and, page by page, whether the crop raises and the text of the cropped  *)
(* and of the whole page, None when extract_text returns None.             *)
(***************************************************************************)

None == [none |-> TRUE, text |-> ""]

Txt(s) == [none |-> FALSE, text |-> s]

\* lines 106-120: the pages from the i-th on, text being what is read so far
RECURSIVE extract_pages(_, _, _)
extract_pages(pages, i, text) == IF i > Len(pages) THEN Txt(text) ELSE IF ~pages[i].crop_raises /\ ~pages[i].cropped.none THEN extract_pages(pages, i + 1, text \o pages[i].cropped.text \o "\n") ELSE IF pages[i].whole.none THEN None ELSE extract_pages(pages, i + 1, text \o pages[i].whole.text \o "\n")

_extract_text_with_crop(pdf) == IF ~pdf.opens THEN None ELSE extract_pages(pdf.pages, 1, "")

\* lines 94-98
_extract_date_from_filename(filename) == LET full == {i \in 1..Len(filename) : StartsAt(filename, i, "20") /\ i + 7 <= Len(filename) /\ IsDigitStr(SubSeq(filename, i + 2, i + 7))} year == {i \in 1..Len(filename) : StartsAt(filename, i, "20") /\ i + 3 <= Len(filename) /\ IsDigitStr(SubSeq(filename, i + 2, i + 3))} IN IF full # {} THEN LET i == SetMin(full) IN SubSeq(filename, i, i + 3) \o "-" \o SubSeq(filename, i + 4, i + 5) \o "-" \o SubSeq(filename, i + 6, i + 7) ELSE IF year # {} THEN SubSeq(filename, SetMin(year), SetMin(year) + 3) \o "-01-01" ELSE "Unknown"

\* lines 43-67: the rows the loop body adds for a file
segments_of_file(mode, file) == LET date_str == _extract_date_from_filename(file.filename) is_conf_call == Contains(Lower(file.filename), "confcall") raw_text == _extract_text_with_crop(file.pdf) IN IF raw_text.none \/ raw_text.text = "" THEN <<>> ELSE LET clean_text == _clean_noise(raw_text.text) IN IF is_conf_call THEN _process_conf_call(mode, clean_text, date_str) ELSE _structure_press_conf(mode, clean_text, date_str)

\* line 40: the files of the folder that end in .pdf
pdf_files(folder) == SelectSeq(folder, LAMBDA file : Len(file.filename) >= 4 /\ SubSeq(file.filename, Len(file.filename) - 3, Len(file.filename)) = ".pdf")

(***************************************************************************)
(* The specification of the press-conference path                          *)
(***************************************************************************)

MaxTurns == 2

TranscriptPieces == {"CHAIR POWELL. Good afternoon. My colleagues and I remain focused on our dual mandate.", "I look forward to your questions.", "MICHELLE SMITH. Thank you. NICK TIMIRAOS. Do you see interest rates rising further in the coming months? CHAIR POWELL. We will be watching the incoming data very carefully.", "CHAIR POWELL. Inflation remains elevated and we are committed to our mandate.", "CHAIR POWELL. Thank you.", "WE WILL NOW TAKE QUESTIONS"}

TranscriptTexts == {Join(ps, " ") : ps \in GroupSeqs(TranscriptPieces, MaxTurns)}

TranscriptDates == {"2023-03-22"}

Structure == op = "init" /\ \E text \in TranscriptTexts, mode \in TokModes, date_str \in TranscriptDates : op' = "_structure_press_conf" /\ arg' = text /\ tok' = mode /\ res' = [split_idx |-> split_index(text), segments |-> _structure_press_conf(mode, text, date_str)] /\ UNCHANGED <<pc, todo, processed_segments, filtered_segments>>

ExtractSpeakers == op = "init" /\ \E text \in TranscriptTexts, is_qa \in BOOLEAN, mode \in TokModes : op' = "_extract_speaker_segments" /\ arg' = [text |-> text, is_qa |-> is_qa] /\ tok' = mode /\ res' = _extract_speaker_segments(mode, text, is_qa) /\ UNCHANGED <<pc, todo, processed_segments, filtered_segments>>

\* conference calls: a remark of a governor, a noise turn of the chair, a title
\* and a page header read as speaker labels, and a passage without any label
CallPieces == {"MS. BRAINARD. I support the proposal and I think the swap lines will help markets.", "CHAIR POWELL. Thank you.", "TRANSCRIPT OF CONFERENCE CALL. The call was held by videoconference on Sunday morning.", "PAGE TWO. MR. CLARIDA: These actions will support the flow of credit to households.", "The Committee met by videoconference to discuss market conditions."}

CallTexts == {Join(ps, " ") : ps \in GroupSeqs(CallPieces, MaxTurns)}

ProcessConfCall == op = "init" /\ \E text \in CallTexts, mode \in TokModes, date_str \in TranscriptDates : op' = "_process_conf_call" /\ arg' = text /\ tok' = mode /\ res' = _process_conf_call(mode, text, date_str) /\ UNCHANGED <<pc, todo, processed_segments, filtered_segments>>

NextConf == Structure \/ ExtractSpeakers \/ ProcessConfCall

SpecConf == Init /\ [][NextConf]_vars

(***************************************************************************)
(* scraping/scrape_press_conf.py: clean_and_structure_transcript, the      *)
(* earlier structurer of press conferences                                 *)
(***************************************************************************)

\* noise_patterns, searched with re.IGNORECASE in the stripped line; [A-B] of
\* the date pattern admits the letters a and b in either case
is_legacy_noise_line(line) == LET l == Lower(line) IN page_of_pattern(l) \/ (\E quote \in {"", "'"}, s \in {"", "s"} : Contains(l, "chairman powell" \o quote \o s \o " press conference")) \/ transcript_of_pattern(l) \/ l = "final" \/ (date_line_pattern(l) /\ Ch(l, 1) \in {"a", "b"})

\* lines 150-180: the stripped lines kept, joined by spaces
full_clean_text(text) == LET lines == SplitLines(text) IN Join(Flatten([i \in 1..Len(lines) |-> LET line == Strip(lines[i]) IN IF line = "" \/ IsDigitStr(line) \/ is_legacy_noise_line(line) THEN <<>> ELSE <<line>>]), " ")

qa_start_markers == <<"I will now take your questions", "I'll be happy to take your questions", "happy to take your questions", "happy to respond to your questions", "We will now take questions", "Q & A">>

\* lines 193-199: the offset of the first marker of the list that is found
RECURSIVE legacy_split_index(_, _)
legacy_split_index(clean_lower, m) == IF m > Len(qa_start_markers) THEN -1 ELSE LET idx == Find(clean_lower, Lower(qa_start_markers[m])) IN IF idx # -1 THEN idx ELSE legacy_split_index(clean_lower, m + 1)

clean_and_structure_transcript(text, date_year) == IF text = "" THEN [split_index |-> -1, structured_data |-> <<>>] ELSE LET clean == full_clean_text(text) split_idx == legacy_split_index(Lower(clean), 1) base_date == date_year \o "-01-01" IN IF split_idx # -1 THEN [split_index |-> split_idx, structured_data |-> <<[date |-> base_date, section |-> "Press Conf - Opening Statement", sentence_text |-> Strip(Slice(clean, 0, split_idx))], [date |-> base_date, section |-> "Press Conf - Q&A", sentence_text |-> Strip(Slice(clean, split_idx, Len(clean)))]>>] ELSE [split_index |-> -1, structured_data |-> <<[date |-> base_date, section |-> "Press Conf - Full Text", sentence_text |-> clean]>>]

(***************************************************************************)
(* The specification of the earlier structurer: raw texts of up to         *)
(* MaxTurns lines                                                          *)
(***************************************************************************)

LegacyLines == {"CHAIRMAN POWELL. Good afternoon. I will now take your questions.", "We will now take questions.", "Page 3 of 25", "I'll be happy to take your questions.", "MICHELLE SMITH. Thank you.", "April 3, 2019", "Q & A", "March 21, 2018"}

LegacyTexts == {Join(ls, "\n") : ls \in GroupSeqs(LegacyLines, MaxTurns)}

LegacyYears == {"2018", "2018-03-21"}

LegacyStructure == op = "init" /\ \E text \in LegacyTexts, date_year \in LegacyYears : op' = "clean_and_structure_transcript" /\ arg' = [text |-> text, date_year |-> date_year] /\ res' = clean_and_structure_transcript(text, date_year) /\ UNCHANGED <<tok, pc, todo, processed_segments, filtered_segments>>

NextLegacy == LegacyStructure

SpecLegacy == Init /\ [][NextLegacy]_vars

(***************************************************************************)
(* utils/utilities.py: the sentiment label normalizers                     *)
(***************************************************************************)

\* s.replace(old, new): the occurrences of old, leftmost first and not
\* overlapping, become new
RECURSIVE Replace(_, _, _)
Replace(s, old, new) == LET i == Find(s, old) IN IF i = -1 THEN s ELSE Slice(s, 0, i) \o new \o Replace(Slice(s, i + Len(old), Len(s)), old, new)

\* lines 231 and 272: str(raw_label).upper().replace("LABEL_", "")
label_clean_of(raw_label) == Replace(Upper(raw_label), "LABEL_", "")

get_sentiment_label_FinBERT_FOMC_not_inverted(raw_label) == LET label_clean == label_clean_of(raw_label) IN IF Contains(label_clean, "NEGATIVE") THEN "Hawkish" ELSE IF Contains(label_clean, "POSITIVE") THEN "Dovish" ELSE IF Contains(label_clean, "NEUTRAL") THEN "Neutral" ELSE IF label_clean = "0" THEN "Neutral" ELSE IF label_clean = "1" THEN "Dovish" ELSE IF label_clean = "2" THEN "Hawkish" ELSE IF Contains(label_clean, "HAWK") THEN "Hawkish" ELSE IF Contains(label_clean, "DOVE") THEN "Dovish" ELSE "Neutral"

get_sentiment_label_FinBERT_FOMC(raw_label) == LET label_clean == label_clean_of(raw_label) IN IF Contains(label_clean, "NEGATIVE") THEN "Dovish" ELSE IF Contains(label_clean, "POSITIVE") THEN "Hawkish" ELSE IF Contains(label_clean, "NEUTRAL") THEN "Neutral" ELSE IF label_clean = "0" THEN "Neutral" ELSE IF label_clean = "1" THEN "Hawkish" ELSE IF label_clean = "2" THEN "Dovish" ELSE IF Contains(label_clean, "HAWK") THEN "Hawkish" ELSE IF Contains(label_clean, "DOVE") THEN "Dovish" ELSE "Neutral"

get_sentiment_label_RoBERTa_no_default(raw_label) == LET label_clean == label_clean_of(raw_label) IN IF Contains(label_clean, "NEGATIVE") THEN "Dovish" ELSE IF Contains(label_clean, "POSITIVE") THEN "Hawkish" ELSE IF Contains(label_clean, "NEUTRAL") THEN "Neutral" ELSE IF label_clean = "0" THEN "Dovish" ELSE IF label_clean = "1" THEN "Neutral" ELSE IF label_clean = "2" THEN "Hawkish" ELSE label_clean

\* the variant that reads the numeric labels in the table of FinBERT-FOMC
get_sentiment_label_RoBERTa_finbert_table(raw_label) == LET label_clean == label_clean_of(raw_label) IN IF Contains(label_clean, "NEGATIVE") THEN "Dovish" ELSE IF Contains(label_clean, "POSITIVE") THEN "Hawkish" ELSE IF Contains(label_clean, "NEUTRAL") THEN "Neutral" ELSE IF label_clean = "0" THEN "Neutral" ELSE IF label_clean = "1" THEN "Hawkish" ELSE IF label_clean = "2" THEN "Dovish" ELSE "Neutral"

get_sentiment_label_RoBERTa(raw_label) == LET label_clean == label_clean_of(raw_label) IN IF Contains(label_clean, "NEGATIVE") THEN "Dovish" ELSE IF Contains(label_clean, "POSITIVE") THEN "Hawkish" ELSE IF Contains(label_clean, "NEUTRAL") THEN "Neutral" ELSE IF label_clean = "0" THEN "Dovish" ELSE IF label_clean = "1" THEN "Neutral" ELSE IF label_clean = "2" THEN "Hawkish" ELSE "Neutral"

(***************************************************************************)
(* The specification of the label normalizers: raw labels are a core with  *)
(* a prefix and a suffix                                                   *)
(***************************************************************************)

LabelPrefixes == {"", "LABEL_", "label_", "LABEL_LABEL_", " "}

LabelCores == {"0", "1", "2", "3", "Negative", "Positive", "Neutral", "NEGATIVE", "positive", "hawkish", "Dove", "bullish", ""}

LabelSuffixes == {"", " ", "?"}

RawLabels == {pre \o core \o post : pre \in LabelPrefixes, core \in LabelCores, post \in LabelSuffixes}

NormalizeFinBERT == op = "init" /\ \E raw_label \in RawLabels : op' = "get_sentiment_label_FinBERT_FOMC" /\ arg' = raw_label /\ res' = get_sentiment_label_FinBERT_FOMC(raw_label) /\ UNCHANGED <<tok, pc, todo, processed_segments, filtered_segments>>

NormalizeRoBERTa == op = "init" /\ \E raw_label \in RawLabels : op' = "get_sentiment_label_RoBERTa" /\ arg' = raw_label /\ res' = get_sentiment_label_RoBERTa(raw_label) /\ UNCHANGED <<tok, pc, todo, processed_segments, filtered_segments>>

\* scripts/5b_advanced_sentiment.py, map_sentiment of enhanced_sentiment_pipeline:
\* the stance it gives the label of a prediction under a model name
map_sentiment(model_name, raw_label) == LET label == Lower(raw_label) IN IF Contains(label, "hawkish") \/ (Contains(label, "negative") /\ Contains(Lower(model_name), "finbert")) THEN "Hawkish" ELSE IF Contains(label, "dovish") \/ (Contains(label, "positive") /\ Contains(Lower(model_name), "finbert")) THEN "Dovish" ELSE "Neutral"

\* the two models the script runs, and the labels they and the fallback of the
\* batch loop give
ModelNames == {"gtfintechlab/FOMC-RoBERTa", "ProsusAI/finbert"}

PipelineLabels == {"positive", "negative", "neutral", "Neutral", "LABEL_0", "LABEL_1", "LABEL_2", "Hawkish", "dovish"}

MapSentiment == op = "init" /\ \E model_name \in ModelNames, raw_label \in PipelineLabels : op' = "map_sentiment" /\ arg' = [model_name |-> model_name, label |-> raw_label] /\ res' = map_sentiment(model_name, raw_label) /\ UNCHANGED <<tok, pc, todo, processed_segments, filtered_segments>>

NextLabel == NormalizeFinBERT \/ NormalizeRoBERTa \/ MapSentiment

SpecLabel == Init /\ [][NextLabel]_vars

(***************************************************************************)
(* utils/utilities.py: the sentiment index aggregators.  A group is a data *)
(* frame: its column names and its rows, a row holding its label (in the   *)
(* label column the frame has) and its score in hundredths.  A quotient is *)
(* kept as numerator and denominator.                                      *)
(***************************************************************************)

Returned(num, den) == [raised |-> "", num |-> num, den |-> den]

Raised(error) == [raised |-> error, num |-> 0, den |-> 1]

\* value_counts().get(label, 0), and (column == label).sum()
count_of(rows, label) == Cardinality({i \in 1..Len(rows) : rows[i].label = label})

\* .loc[column == label, 'sentiment_score'].sum()
RECURSIVE sum_scores(_, _, _)
sum_scores(rows, label, i) == IF i > Len(rows) THEN 0 ELSE (IF rows[i].label = label THEN rows[i].sentiment_score ELSE 0) + sum_scores(rows, label, i + 1)

calculate_net_sentiment_counts_dovish_positive(group) == LET col == IF "sentiment" \in group.columns THEN "sentiment" ELSE "sentiment_label" IN IF col \notin group.columns THEN Returned(0, 1) ELSE LET h == count_of(group.rows, "Hawkish") d == count_of(group.rows, "Dovish") n == count_of(group.rows, "Neutral") total == h + d + n IN IF total = 0 THEN Returned(0, 1) ELSE Returned(d - h, total)

calculate_net_sentiment_counts(group) == LET col == IF "sentiment" \in group.columns THEN "sentiment" ELSE "sentiment_label" IN IF col \notin group.columns THEN Returned(0, 1) ELSE LET h == count_of(group.rows, "Hawkish") d == count_of(group.rows, "Dovish") n == count_of(group.rows, "Neutral") total == h + d + n IN IF total = 0 THEN Returned(0, 1) ELSE Returned(h - d, total)

\* the variant that divides by the number of all rows, Neutral ones included, as
\* the count index does
calculate_net_sentiment_scores_over_all_rows(group) == IF "sentiment" \notin group.columns \/ "sentiment_score" \notin group.columns THEN Raised("KeyError") ELSE LET h_score == sum_scores(group.rows, "Hawkish", 1) d_score == sum_scores(group.rows, "Dovish", 1) total == Len(group.rows) IN IF total = 0 THEN Returned(0, 1) ELSE Returned(h_score - d_score, total)

\* group['sentiment'] and the 'sentiment_score' column are read whatever the
\* frame holds: a frame without them raises KeyError
calculate_net_sentiment_scores(group) == IF "sentiment" \notin group.columns \/ "sentiment_score" \notin group.columns THEN Raised("KeyError") ELSE LET h_score == sum_scores(group.rows, "Hawkish", 1) d_score == sum_scores(group.rows, "Dovish", 1) h_count == count_of(group.rows, "Hawkish") d_count == count_of(group.rows, "Dovish") total == h_count + d_count IN IF total = 0 THEN Returned(0, 1) ELSE Returned(h_score - d_score, total)

(***************************************************************************)
(* The specification of the aggregators                                    *)
(***************************************************************************)

MaxRows == 3

GroupColumns == {{"sentiment", "sentiment_score"}, {"sentiment_label", "sentiment_score"}, {"sentiment_score"}}

GroupRows == [label : {"Hawkish", "Dovish", "Neutral"}, sentiment_score : {55, 90}]

Groups == [columns : GroupColumns, rows : UNION {[1..k -> GroupRows] : k \in 0..MaxRows}]

AggregateCounts == op = "init" /\ \E group \in Groups : op' = "calculate_net_sentiment_counts" /\ arg' = group /\ res' = calculate_net_sentiment_counts(group) /\ UNCHANGED <<tok, pc, todo, processed_segments, filtered_segments>>

AggregateScores == op = "init" /\ \E group \in Groups : op' = "calculate_net_sentiment_scores" /\ arg' = group /\ res' = calculate_net_sentiment_scores(group) /\ UNCHANGED <<tok, pc, todo, processed_segments, filtered_segments>>

NextAgg == AggregateCounts \/ AggregateScores

SpecAgg == Init /\ [][NextAgg]_vars

(***************************************************************************)
(* The specification of process_pdfs, run file by file.  pc is "files"     *)
(* while the loop runs, todo the files it has still to visit, res the rows *)
(* gathered so far (all_rows), which are the rows saved.                   *)
(***************************************************************************)

Page(text) == [crop_raises |-> FALSE, cropped |-> Txt(text), whole |-> Txt(text)]

\* a page too small for the crop box: the whole page is read instead
SmallPage(text) == [crop_raises |-> TRUE, cropped |-> None, whole |-> Txt(text)]

\* a page for which extract_text returns None
BlankPage == [crop_raises |-> FALSE, cropped |-> None, whole |-> None]

Readable(pages) == [opens |-> TRUE, pages |-> pages]

Unreadable == [opens |-> FALSE, pages |-> <<>>]

PdfFiles == {[filename |-> "FOMCpresconf20230322.pdf", pdf |-> Readable(<<Page("March 22, 2023\nCHAIR POWELL. Good afternoon. My colleagues and I remain focused on our dual mandate.\n7"), SmallPage("MICHELLE SMITH. Thank you.\nCHAIR POWELL. We will be watching the incoming data very carefully.\nPage 2 of 2")>>)], [filename |-> "FOMCpresconf20200315.pdf", pdf |-> Unreadable], [filename |-> "FOMCpresconf20190130.pdf", pdf |-> Readable(<<Page("CHAIR POWELL. Inflation remains elevated and we are committed to our mandate."), BlankPage>>)], [filename |-> "FOMCpresconf2018.pdf", pdf |-> Readable(<<>>)], [filename |-> "fomcconfcall20200315.pdf", pdf |-> Readable(<<Page("CHAIR POWELL. Inflation remains elevated and we are committed to our mandate.\nMR. CLARIDA. Thank you.\nMS. BRAINARD: I support the action taken by the Committee today.")>>)], [filename |-> "FOMCpresconf20230322.txt", pdf |-> Readable(<<Page("CHAIR POWELL. Inflation remains elevated and we are committed to our mandate.")>>)]}

\* os.listdir: the files of the folder, in any order, no name twice
Folders == {folder \in GroupSeqs(PdfFiles, MaxDocs) : \A i, j \in 1..Len(folder) : (i # j) => (folder[i].filename # folder[j].filename)}

\* lines 33-40
PdfStart == op = "init" /\ pc = "idle" /\ \E folder \in Folders, mode \in TokModes : op' = "process_pdfs" /\ arg' = folder /\ tok' = mode /\ todo' = pdf_files(folder) /\ res' = <<>> /\ pc' = "files" /\ UNCHANGED <<processed_segments, filtered_segments>>

PdfFile_stops_at_unread_file == op = "process_pdfs" /\ pc = "files" /\ todo # <<>> /\ res' = res \o segments_of_file(tok, Head(todo)) /\ todo' = (IF _extract_text_with_crop(Head(todo).pdf).none THEN <<>> ELSE Tail(todo)) /\ UNCHANGED <<op, arg, tok, pc, processed_segments, filtered_segments>>

PdfFile_keeps_first_date == op = "process_pdfs" /\ pc = "files" /\ todo # <<>> /\ res' = res \o segments_of_file(tok, [Head(todo) EXCEPT !.filename = pdf_files(arg)[1].filename]) /\ todo' = Tail(todo) /\ UNCHANGED <<op, arg, tok, pc, processed_segments, filtered_segments>>

\* lines 42-67: the body of the loop, for the next file
PdfFile == op = "process_pdfs" /\ pc = "files" /\ todo # <<>> /\ res' = res \o segments_of_file(tok, Head(todo)) /\ todo' = Tail(todo) /\ UNCHANGED <<op, arg, tok, pc, processed_segments, filtered_segments>>

\* lines 69-87: the rows are saved (or nothing is, when there is none)
PdfSave == op = "process_pdfs" /\ pc = "files" /\ todo = <<>> /\ pc' = "saved" /\ UNCHANGED <<op, arg, tok, res, todo, processed_segments, filtered_segments>>

NextPdf == PdfStart \/ PdfFile \/ PdfSave

SpecPdf == Init /\ [][NextPdf]_vars

(***************************************************************************)
(* Claims about the segmenter (checked under SpecSeg)                      *)
(***************************************************************************)

Segmented == op = "split_into_sentences_robust"

\* the tokenized sentences of the call, stripped as the loop strips them
StateSentences == LET sentences == sent_tokenize(tok, arg) IN {Strip(sentences[j]) : j \in 1..Len(sentences)}

\* sentence went through split_long_sentence and a part of it went through the comma split
CommaSplit(sentence) == \E part \in {Strip(ReSplitAfter(sentence, {".", "!", "?", ";"})[j]) : j \in 1..Len(ReSplitAfter(sentence, {".", "!", "?", ";"}))} : keep_part(part) /\ WordCount(part) > 40 /\ parts_of(part) # <<>>

\* C1: every sentence split_into_sentences_robust returns has at least 5
\* whitespace-separated words, whichever path produced it (kept as tokenized,
\* punctuation split, comma split, unsplit fallback).
C1_MinWords == Segmented => \A i \in 1..Len(res) : WordCount(res[i]) >= 5

\* a call in which a sentence of more than 30 words went through the comma split,
\* another result is a sentence kept as tokenized
C1_Witness == Segmented /\ (\E s \in StateSentences : basic_filter(s) /\ WordCount(s) > 30 /\ CommaSplit(s)) /\ (\E i \in 1..Len(res) : res[i] \in StateSentences /\ WordCount(res[i]) <= 30)

\* C2 as claimed: every returned sentence has at least 30 characters.
C2_MinChars30 == Segmented => \A i \in 1..Len(res) : Len(res[i]) >= 30

\* C2 amended: every returned sentence has at least 20 characters, and one of
\* fewer than 30 characters is a piece of a tokenized sentence of more than 40
\* words (a comma-delimited sub-part, which line 61 keeps from 20 characters on).
C2_MinCharsAmended == Segmented => \A i \in 1..Len(res) : Len(res[i]) >= 20 /\ (Len(res[i]) < 30 => \E s \in StateSentences : WordCount(s) > 40 /\ Contains(s, res[i]) /\ res[i] # s)

\* a call that returns a comma-delimited sub-part of 20 to 29 characters
C2_Witness == Segmented /\ \E i \in 1..Len(res) : Len(res[i]) < 30 /\ Len(res[i]) >= 20

\* the input contains a run of n or more words (not interrupted by a sentence end)
HasWordRun(text, n) == \E j \in 1..Len(ReSplitAfter(text, {".", "!", "?"})) : WordCount(ReSplitAfter(text, {".", "!", "?"})[j]) >= n

\* C3 as claimed: a non-empty input of stripped length >= 10 that contains a run
\* of 5 or more words yields a non-empty result.
C3_NeverDropsAll == (Segmented /\ arg # "" /\ Len(Strip(arg)) >= 10 /\ HasWordRun(arg, 5)) => res # <<>>

\* C3 amended: an input of stripped length >= 10 for which the tokenizer yields
\* at least one sentence of 5 or more words and 30 or more characters that is
\* not noise yields a non-empty result (a long sentence none of whose parts
\* survives is returned unsplit).
C3_NeverDropsRetained == (Segmented /\ Len(Strip(arg)) >= 10 /\ \E s \in StateSentences : WordCount(s) >= 5 /\ Len(s) >= 30 /\ ~is_noise_content(s)) => res # <<>>

\* a call whose only retained sentence has more than 30 words and no surviving
\* part: the result is that sentence, unsplit
C3_Witness == Segmented /\ Len(res) = 1 /\ res[1] \in StateSentences /\ WordCount(res[1]) > 30 /\ valid_parts_of(res[1]) = <<>>

\* C4 as claimed: no returned sentence has more than 30 words.
C4_AtMost30Words == Segmented => \A i \in 1..Len(res) : WordCount(res[i]) <= 30

\* C4 amended: a sentence of more than 30 words always goes through
\* split_long_sentence, so a returned sentence of more than 30 words is one that
\* split_long_sentence does not split further: it holds no blank run after
\* . ! ? ; and, beyond 40 words, none after a comma, or it is the unsplit
\* fallback of a sentence none of whose parts survives.
C4_LongOnlyUnsplittable == Segmented => \A i \in 1..Len(res) : WordCount(res[i]) > 30 => \/ (BoundariesAfter(res[i], {".", "!", "?", ";"}) = {} /\ (WordCount(res[i]) > 40 => BoundariesAfter(res[i], {","}) = {})) \/ (res[i] \in StateSentences /\ valid_parts_of(res[i]) = <<>>)

\* a call that returns a sub-part of more than 30 words in place of a longer sentence
C4_Witness == Segmented /\ \E i \in 1..Len(res) : WordCount(res[i]) > 30 /\ res[i] \notin StateSentences

(***************************************************************************)
(* Claims about the noise filter (checked under SpecSeg)                   *)
(***************************************************************************)

NoiseChecked == op = "is_noise_content"

IsPhraseAnyCase(text) == \E k \in 1..Len(noise_phrases) : Lower(text) = Lower(noise_phrases[k])

MentionsPhrase(text) == \E k \in 1..Len(noise_phrases) : Contains(Lower(text), Lower(noise_phrases[k]))

\* C5: is_noise_content is true of every phrase of the noise-phrase list, in any
\* letter case, and of every string of fewer than 5 characters.
C5_PhrasesAndShortAreNoise == (NoiseChecked /\ (IsPhraseAnyCase(arg) \/ Len(arg) < 5)) => res = TRUE

\* a phrase of 5 or more characters written in capitals is found to be noise
C5_Witness == NoiseChecked /\ Len(arg) >= 5 /\ arg # Lower(arg) /\ arg = Upper(arg) /\ IsPhraseAnyCase(arg) /\ res = TRUE

\* C6: a text of 30 or more characters whose lowercased form trimmed of '.', ','
\* and ' ' is no noise phrase is not noise, even when it contains a phrase; a
\* text of 5 to 29 characters is noise exactly when it contains a phrase.
C6_LongMentionsKept == NoiseChecked => /\ ((Len(arg) >= 30 /\ ~IsPhraseAnyCase(StripChars(Lower(arg), {".", ",", " "}))) => res = FALSE) /\ ((Len(arg) >= 5 /\ Len(arg) < 30) => (res = TRUE <=> MentionsPhrase(arg)))

\* a text of 30 or more characters that contains a noise phrase and is kept
C6_Witness == NoiseChecked /\ Len(arg) >= 30 /\ MentionsPhrase(arg) /\ res = FALSE

(***************************************************************************)
(* Claims about the content preprocessor (checked under SpecPre)           *)
(***************************************************************************)

InPreprocess == pc \in {"paragraphs", "cleanup"}

SegmentSizeOk(seg) == 3 <= WordCount(seg) /\ WordCount(seg) <= 100

\* the loops still to run, and the iterations left in the current one
PhaseRank == IF pc = "paragraphs" THEN 2 ELSE IF pc = "cleanup" THEN 1 ELSE 0

\* C7: preprocess_content terminates on every input, and every segment it emits
\* (appends to filtered_segments, and returns) has between 3 and 100 words,
\* whatever the punctuation of the input.  Termination: a call that has not
\* returned can always take a step, and every step of it decreases the pair
\* (loops left, iterations left) in the lexicographic order.
C7_TerminatesBounded == /\ [](\A i \in 1..Len(filtered_segments) : SegmentSizeOk(filtered_segments[i])) /\ [](pc = "done" => res = filtered_segments) /\ [](InPreprocess => (MoreParagraphs \/ ParagraphsDone \/ MoreSegments \/ SegmentsDone)) /\ [][InPreprocess => (PhaseRank' < PhaseRank \/ (PhaseRank' = PhaseRank /\ Len(todo') < Len(todo)))]_vars

\* a call on more than 100 words without any punctuation or paragraph break has
\* returned, and returned several windows
C7_Witness == pc = "done" /\ op = "preprocess_content" /\ WordCount(arg) > 100 /\ BoundariesAfter(arg, {".", "!", "?", ";", ":", ","}) = {} /\ ParagraphBreaks(arg) = {} /\ Len(res) >= 2

(***************************************************************************)
(* Claims about the minutes path (checked under SpecMin)                   *)
(***************************************************************************)

Extracted == op = "extract_sections"

\* the span of text[a:b] as a set of offsets
Span(a, b) == {x \in 0..b : a <= x /\ x < b}

\* C8: when extract_sections returns two or more sections, they come in strictly
\* increasing order of header start offset, their content spans are disjoint,
\* no section name occurs twice and the last content extends to the end of the
\* document.
C8_SectionsOrdered == (Extracted /\ Len(res) >= 2) => ((\A i \in 1..(Len(res) - 1) : res[i].start_index < res[i + 1].start_index) /\ (\A i, j \in 1..Len(res) : i # j => (Span(res[i].content_start, res[i].end) \cap Span(res[j].content_start, res[j].end) = {} /\ res[i].section_name # res[j].section_name)) /\ (res[Len(res)].end = Len(arg)))

\* a document whose sections come in another order than section_patterns lists them
C8_Witness == Extracted /\ Len(res) >= 2 /\ res[1].section_name = "Committee Policy Action" /\ res[2].section_name = "Staff Review of Economic Situation" /\ res[1].section_text # ""

Batched == op = "segment_sentences"

NoAliasIn(text) == \A n \in 1..Len(section_keywords) : \A k \in 1..Len(section_keywords[n]) : ~Contains(Lower(text), section_keywords_lower[n][k])

\* the rows of res that come from document d (0-based), in order
RowsOfDoc(rows, d) == Flatten([i \in 1..Len(rows) |-> IF rows[i].original_doc_id = d THEN <<rows[i]>> ELSE <<>>])

\* the rows document d yields when it is processed alone, renumbered d
AloneRows(d) == LET alone == segment_sentences(tok, <<arg[d + 1]>>) IN [i \in 1..Len(alone) |-> [alone[i] EXCEPT !.original_doc_id = d]]

\* C9: a document in which no section header alias occurs gets no section from
\* extract_sections and no row from segment_sentences, and every other document
\* of the batch still gets its rows.
C9_SkipsUnstructured == Batched => \A d \in 0..(Len(arg) - 1) : (NoAliasIn(arg[d + 1].text) => (extract_sections(arg[d + 1].text) = <<>> /\ RowsOfDoc(res, d) = <<>>)) /\ (RowsOfDoc(res, d) = AloneRows(d))

\* a batch whose first document has no header and whose second document has rows
C9_Witness == Batched /\ Len(arg) = 2 /\ NoAliasIn(arg[1].text) /\ arg[1].text # "" /\ RowsOfDoc(res, 1) # <<>> /\ Len(res) >= 2

(***************************************************************************)
(* Claims about the press-conference path (checked under SpecConf)         *)
(***************************************************************************)

Structured == op = "_structure_press_conf"

\* the offsets of the first occurrences of the markers in the text, -1 for a
\* marker that does not occur
MarkerOffsets(text) == LET text_lower == Lower(text) IN [m \in 1..Len(split_markers) |-> Find(text_lower, split_markers_lower[m])]

\* C10: the Q&A split index is the smallest first-occurrence offset over all the
\* markers of the list, whatever their order in the list.
C10_EarliestMarker == Structured => (LET off == MarkerOffsets(arg) found == {m \in DOMAIN off : off[m] # -1} IN (found # {}) => ((\E m \in found : res.split_idx = off[m]) /\ (\A m \in found : res.split_idx <= off[m])))

\* a transcript with two markers at offsets p < q, the one at p being listed
\* after the one at q: the split index is p
C10_Witness == Structured /\ (LET off == MarkerOffsets(arg) found == {m \in DOMAIN off : off[m] # -1} IN \E m1, m2 \in found : (m1 < m2) /\ (off[m2] < off[m1]) /\ (res.split_idx = off[m2]) /\ (\A k \in found : k >= m1))

MarkerOccurs(text) == \E m \in 1..Len(split_markers) : MarkerOffsets(text)[m] # -1

\* C11: the records of _structure_press_conf are labelled by the split.  When a
\* marker occurs every record is an 'Opening Statement' or a 'Q&A' record, an
\* 'Opening Statement' text is found in the text before the split index, a
\* 'Q&A' text in the text from the split index on, and no 'Q&A' record comes
\* before an 'Opening Statement' record; when no marker occurs every record is
\* a 'Full Text' record.
C11_LabelledBySplit == Structured => (LET segs == res.segments idx == res.split_idx IN IF MarkerOccurs(arg) THEN ((idx # -1) /\ (\A i \in 1..Len(segs) : (segs[i].section \in {"Opening Statement", "Q&A"}) /\ ((segs[i].section = "Opening Statement") => Contains(Slice(arg, 0, idx), segs[i].text)) /\ ((segs[i].section = "Q&A") => Contains(Slice(arg, idx, Len(arg)), segs[i].text))) /\ (\A i, j \in 1..Len(segs) : (i < j) => ~((segs[i].section = "Q&A") /\ (segs[j].section = "Opening Statement")))) ELSE (\A i \in 1..Len(segs) : segs[i].section = "Full Text"))

\* a transcript split inside the text: records on both sides of the split, and
\* the text of each side is found on that side only
C11_Witness == Structured /\ (res.split_idx > 0) /\ (\E i, j \in 1..Len(res.segments) : (res.segments[i].section = "Opening Statement") /\ (res.segments[j].section = "Q&A") /\ ~Contains(Slice(arg, 0, res.split_idx), res.segments[j].text) /\ ~Contains(Slice(arg, res.split_idx, Len(arg)), res.segments[i].text))

SpeakersExtracted == op = "_extract_speaker_segments"

\* the turns of a span: the labels the pattern finds, upper-cased, each with
\* the text that follows it up to the next label
Turns(text) == LET parts == pattern_split(text, TRUE) IN [t \in 1..((Len(parts) - 1) \div 2) |-> [label |-> Upper(Strip(parts[2 * t])), content |-> Strip(parts[2 * t + 1])]]

IsTargetLabel(label) == Contains(label, "POWELL") \/ Contains(label, Upper(preamble_label))

\* C12: when the span has a speaker label, every returned sentence is found in
\* a turn of the target speaker (label with POWELL, or the transcript preamble)
\* whose content is not noise, and in no turn of another speaker.
C12_OnlyTargetSpeaker == (SpeakersExtracted /\ Len(Turns(arg.text)) >= 1) => (\A i \in 1..Len(res) : (\E t \in 1..Len(Turns(arg.text)) : IsTargetLabel(Turns(arg.text)[t].label) /\ ~is_noise_content(Turns(arg.text)[t].content) /\ Contains(Turns(arg.text)[t].content, res[i])) /\ (\A t \in 1..Len(Turns(arg.text)) : (~IsTargetLabel(Turns(arg.text)[t].label)) => ~Contains(Turns(arg.text)[t].content, res[i])))

\* a span with a turn of another speaker long enough to be a sentence, a noise
\* turn of the target speaker, and a sentence returned
C12_Witness == SpeakersExtracted /\ (res # <<>>) /\ (\E t, u \in 1..Len(Turns(arg.text)) : (~IsTargetLabel(Turns(arg.text)[t].label)) /\ (split_into_sentences_robust(tok, Turns(arg.text)[t].content) # <<>>) /\ IsTargetLabel(Turns(arg.text)[u].label) /\ is_noise_content(Turns(arg.text)[u].content))

(***************************************************************************)
(* Claims about the label normalizers (checked under SpecLabel)            *)
(***************************************************************************)

Normalized == op \in {"get_sentiment_label_FinBERT_FOMC", "get_sentiment_label_RoBERTa"}

SentimentClasses == {"Hawkish", "Dovish", "Neutral"}

FamilyLabels == {"LABEL_0", "LABEL_1", "LABEL_2", "Negative", "Positive", "Neutral"}

\* C13 as stated: every raw label maps into the three classes, and every raw
\* label that is not one of LABEL_0, LABEL_1, LABEL_2, Negative, Positive,
\* Neutral maps to Neutral.
C13_OthersAreNeutral == Normalized => ((res \in SentimentClasses) /\ ((arg \notin FamilyLabels) => (res = "Neutral")))

\* what the normalizers read in a raw label: upper-cased and without LABEL_, a
\* text with NEGATIVE, POSITIVE or NEUTRAL, a numeric index 0, 1 or 2 and, for
\* the FinBERT-FOMC family, a text with HAWK or DOVE
Unrecognized(family, raw_label) == LET c == Replace(Upper(raw_label), "LABEL_", "") IN (~Contains(c, "NEGATIVE")) /\ (~Contains(c, "POSITIVE")) /\ (~Contains(c, "NEUTRAL")) /\ (c \notin {"0", "1", "2"}) /\ ((family = "get_sentiment_label_FinBERT_FOMC") => ((~Contains(c, "HAWK")) /\ (~Contains(c, "DOVE"))))

\* C13 (amended): every raw label maps into the three classes, and every raw
\* label in which the family's normalizer reads no label maps to Neutral.
C13_UnrecognizedAreNeutral == Normalized => ((res \in SentimentClasses) /\ (Unrecognized(op, arg) => (res = "Neutral")))

C13_Witness == Normalized /\ (arg \notin FamilyLabels) /\ (Len(arg) > 3) /\ Unrecognized(op, arg) /\ (res = "Neutral")

\* C14: negative is Dovish, positive is Hawkish, neutral is Neutral in both
\* families; LABEL_0, LABEL_1, LABEL_2 are Neutral, Hawkish, Dovish for
\* FinBERT-FOMC and Dovish, Neutral, Hawkish for RoBERTa.
C14_InvertedPolarity == Normalized => (((Lower(arg) = "negative") => (res = "Dovish")) /\ ((Lower(arg) = "positive") => (res = "Hawkish")) /\ ((Lower(arg) = "neutral") => (res = "Neutral")) /\ ((op = "get_sentiment_label_FinBERT_FOMC") => (((arg = "LABEL_0") => (res = "Neutral")) /\ ((arg = "LABEL_1") => (res = "Hawkish")) /\ ((arg = "LABEL_2") => (res = "Dovish")))) /\ ((op = "get_sentiment_label_RoBERTa") => (((arg = "LABEL_0") => (res = "Dovish")) /\ ((arg = "LABEL_1") => (res = "Neutral")) /\ ((arg = "LABEL_2") => (res = "Hawkish")))))

C14_Witness == (op = "get_sentiment_label_FinBERT_FOMC") /\ (arg = "LABEL_2") /\ (res = "Dovish")

(***************************************************************************)
(* Claims about the aggregators (checked under SpecAgg)                    *)
(***************************************************************************)

CountsComputed == op = "calculate_net_sentiment_counts"

ScoresComputed == op = "calculate_net_sentiment_scores"

Labelled(group) == ("sentiment" \in group.columns) \/ ("sentiment_label" \in group.columns)

RowsWith(group, label) == {i \in 1..Len(group.rows) : group.rows[i].label = label}

\* C15: for a group of labelled records the count index is
\* (hawkish - dovish) / (hawkish + dovish + neutral): it lies in [-1, 1], is
\* positive exactly when the Hawkish records outnumber the Dovish ones, and is
\* 0 when the total is 0.
C15_CountIndex == (CountsComputed /\ Labelled(arg)) => (LET h == Cardinality(RowsWith(arg, "Hawkish")) d == Cardinality(RowsWith(arg, "Dovish")) n == Cardinality(RowsWith(arg, "Neutral")) IN (res.raised = "") /\ ((h + d + n = 0) => (res.num = 0)) /\ ((h + d + n > 0) => ((res.num * (h + d + n) = (h - d) * res.den) /\ (res.den > 0))) /\ (-res.den <= res.num) /\ (res.num <= res.den) /\ ((res.num > 0) <=> (h > d)))

C15_Witness == CountsComputed /\ ("sentiment_label" \in arg.columns) /\ (Cardinality(RowsWith(arg, "Hawkish")) = 2) /\ (Cardinality(RowsWith(arg, "Dovish")) = 1) /\ (res.num = 1) /\ (res.den = 3)

\* C16: on a group with no records both aggregators return 0, whichever of
\* the label columns 'sentiment' and 'sentiment_label' the group has.
C16_EmptyGroupIsZero == ((CountsComputed \/ ScoresComputed) /\ Labelled(arg) /\ (arg.rows = <<>>)) => ((res.raised = "") /\ (res.num = 0))

(***************************************************************************)
(* Claims about process_pdfs (checked under SpecPdf)                       *)
(***************************************************************************)

Saved == op = "process_pdfs" /\ pc = "saved"

\* the text extraction of the file fails or yields no text
BadPdf(file) == _extract_text_with_crop(file.pdf).none \/ _extract_text_with_crop(file.pdf).text = ""

\* the rows of a folder processed from start to end
RowsOfFolder(mode, folder) == Flatten([i \in 1..Len(pdf_files(folder)) |-> segments_of_file(mode, pdf_files(folder)[i])])

\* C17: a PDF whose text extraction fails or yields no text adds no row, and
\* the rows saved are those of the folder without the bad PDFs; the loop goes
\* on to the end of the folder whatever the files are.
C17_BadPdfSkipped == ((op = "process_pdfs") => ((pc = "files") \/ (pc = "saved"))) /\ (Saved => ((\A i \in 1..Len(arg) : BadPdf(arg[i]) => (segments_of_file(tok, arg[i]) = <<>>)) /\ (res = RowsOfFolder(tok, SelectSeq(arg, LAMBDA file : ~BadPdf(file))))))

\* an unreadable PDF comes first, and the PDF after it has its rows saved
C17_Witness == Saved /\ (Len(pdf_files(arg)) >= 2) /\ (~pdf_files(arg)[1].pdf.opens) /\ (~BadPdf(pdf_files(arg)[2])) /\ (res # <<>>)

\* the files the loop has visited so far
Visited == SubSeq(pdf_files(arg), 1, Len(pdf_files(arg)) - Len(todo))

\* the rows of a document processed alone: a folder holding this file only
RowsAlone(mode, file) == RowsOfFolder(mode, <<file>>)

Reversed(seq) == [i \in 1..Len(seq) |-> seq[Len(seq) + 1 - i]]

LongSplit == op = "split_long_sentence"

\* the parts of a sentence after '.', '!', '?' and ';', stripped
PartsOf(sentence) == LET parts == ReSplitAfter(sentence, {".", "!", "?", ";"}) IN {Strip(parts[j]) : j \in 1..Len(parts)}

\* the comma-delimited sub-parts of a part, stripped
CommaPartsOf(part) == LET comma_parts == ReSplitAfter(part, {","}) IN {Strip(comma_parts[j]) : j \in 1..Len(comma_parts)}

\* the part gives at least one valid part: it passes the first filter and,
\* when it has more than 40 words, so does one of its sub-parts
Survives(part) == (WordCount(part) >= 5) /\ (Len(part) >= 30) /\ (~is_noise_content(part)) /\ ((WordCount(part) > 40) => (\E cp \in CommaPartsOf(part) : (WordCount(cp) >= 5) /\ (Len(cp) >= 20)))

\* C19: split_long_sentence never returns an empty sequence; when no part
\* survives its filters the result is the original sentence alone.
C19_FallbackToOriginal == LongSplit => ((res # <<>>) /\ ((\A part \in PartsOf(arg) : ~Survives(part)) => (res = <<arg>>)))

\* a part of more than 40 words passes the first filter, none of its
\* sub-parts is kept, and the sentence comes back whole
C19_Witness == LongSplit /\ (res = <<arg>>) /\ (\E part \in PartsOf(arg) : (WordCount(part) > 40) /\ (Len(part) >= 30) /\ (~is_noise_content(part)) /\ (~Survives(part)))

\* the alias of section_names[n] that extract_sections matched in the document
MatchedAlias(text, n) == section_keywords[n][first_keyword(Lower(text), n)]

\* the 0-based offset in the document itself at which an alias first occurs,
\* in any letter case
HeaderOffset(text, alias) == LET alias_lower == Lower(alias) IN SetMin({i \in 0..(Len(text) - Len(alias)) : (LowerChar(Ch(text, i + 1)) = Ch(alias_lower, 1)) /\ (Lower(Slice(text, i, i + Len(alias))) = alias_lower)})

SectionIndex(name) == CHOOSE n \in 1..Len(section_names) : section_names[n] = name

\* the content span of the i-th returned section, measured in the document
ContentSpan(text, sections, i) == LET alias(k) == MatchedAlias(text, SectionIndex(sections[k].section_name)) start == HeaderOffset(text, alias(i)) + Len(alias(i)) end == IF i < Len(sections) THEN HeaderOffset(text, alias(i + 1)) ELSE Len(text) IN Strip(Slice(text, start, end))

\* C20: extract_sections strips headers from content: the content of the i-th
\* section in document order is exactly the text from (start offset of its
\* header + length of the matched alias) up to the start offset of the next
\* section's header, or up to the document end for the last section, with
\* surrounding whitespace trimmed; text before the first header belongs to no
\* section.  The offsets are found in text.lower() and used on text, so a
\* dotted capital I before a header shifts every later span by one character.
C20_HeadersStripped == Extracted => (\A i \in 1..Len(res) : res[i].section_text = ContentSpan(arg, res, i))

\* the aliases of section n that occur in the document, in any letter case
OccurringAliases(text_lower, n) == {k \in 1..Len(section_keywords[n]) : Contains(text_lower, Lower(section_keywords[n][k]))}

\* the offsets at which an alias occurs in the lower-cased document
Occurrences(text_lower, alias) == {i \in 0..(Len(text_lower) - Len(alias)) : Slice(text_lower, i, i + Len(alias)) = Lower(alias)}

RowsNamed(sections, name) == {i \in 1..Len(sections) : sections[i].section_name = name}

\* C21: for each canonical section, extract_sections uses the first alias, in
\* the declared order of the alias list, that occurs anywhere in the text in
\* any letter case, at that alias's first occurrence, even when a later alias
\* of the same section occurs at an earlier offset; a section none of whose
\* aliases occurs is not returned.
C21_FirstDeclaredAlias == Extracted => (LET text_lower == Lower(arg) IN \A n \in 1..Len(section_names) : LET occurring == OccurringAliases(text_lower, n) rows == RowsNamed(res, section_names[n]) IN IF occurring = {} THEN (rows = {}) ELSE ((Cardinality(rows) = 1) /\ (\A i \in rows : LET alias == section_keywords[n][SetMin(occurring)] IN (res[i].start_index = SetMin(Occurrences(text_lower, alias))) /\ (res[i].content_start = res[i].start_index + Len(alias)))))

\* "The information reviewed for the" occurs before "Staff Review of the
\* Economic Situation", and the section starts at the latter
C21_Witness == Extracted /\ (\E i \in 1..Len(res) : (res[i].section_name = "Staff Review of Economic Situation") /\ (Occurrences(Lower(arg), "The information reviewed for the") # {}) /\ (SetMin(Occurrences(Lower(arg), "The information reviewed for the")) < res[i].start_index) /\ (res[i].content_start = res[i].start_index + Len("Staff Review of the Economic Situation")))

CallProcessed == op = "_process_conf_call"

\* no speaker label is recognized anywhere in the span
NoLabel(text, preamble) == \A i \in 0..(Len(text) - 1) : ~match_at(text, i, preamble).ok

TextsOf(records) == [i \in 1..Len(records) |-> records[i].text]

\* C22: a transcript span with no recognizable speaker label degrades to a
\* single turn covering the whole text: an opening or full-text span, a Q&A
\* span and a conference call without any label each yield the sentences of
\* their whole text.  The code does so for the first of the three only.
C22_NoLabelIsWholeText == ((SpeakersExtracted /\ NoLabel(arg.text, TRUE)) => (res = split_into_sentences_robust(tok, arg.text))) /\ ((CallProcessed /\ NoLabel(arg, FALSE)) => (TextsOf(res) = split_into_sentences_robust(tok, arg)))

\* the turns of a conference call: the upper-cased label and the content of each
CallTurns(text) == LET parts == pattern_split(text, FALSE) IN [t \in 1..((Len(parts) - 1) \div 2) |-> [label |-> Upper(Strip(parts[2 * t])), content |-> Strip(parts[2 * t + 1])]]

FalseLabel(label) == Contains(label, "TRANSCRIPT OF") \/ Contains(label, "PAGE")

Discarded(turn) == is_noise_content(turn.content) \/ FalseLabel(turn.label)

\* what a turn that is not discarded contributes: its sentences, under its label
CallRecordsOf(mode, turn) == LET sentences == sentences_of_content(mode, turn.content) IN [i \in 1..Len(sentences) |-> [section |-> "Conference Call", speaker |-> turn.label, text |-> sentences[i]]]

WithoutDate(records) == [i \in 1..Len(records) |-> [f \in (DOMAIN records[i]) \ {"date"} |-> records[i][f]]]

\* C23: in a conference call _process_conf_call never excludes a turn because
\* of who speaks: a turn is discarded only when its content is noise or its
\* label contains TRANSCRIPT OF or PAGE, and every other turn contributes its
\* sentences; every record has section Conference Call and carries the
\* upper-cased label of the very turn its sentence came from, whereas the
\* records of a press conference carry no speaker field.
C23_EverySpeakerKept == (CallProcessed => (WithoutDate(res) = Flatten([t \in 1..Len(CallTurns(arg)) |-> IF Discarded(CallTurns(arg)[t]) THEN <<>> ELSE CallRecordsOf(tok, CallTurns(arg)[t])]))) /\ (Structured => (\A i \in 1..Len(res.segments) : DOMAIN res.segments[i] = {"date", "section", "text"}))

\* a governor's sentence is recorded under her name, next to a turn discarded
\* for its label although its content has sentences
C23_Witness == CallProcessed /\ (\E i \in 1..Len(res) : (~Contains(res[i].speaker, "POWELL")) /\ (res[i].section = "Conference Call")) /\ (\E t \in 1..Len(CallTurns(arg)) : FalseLabel(CallTurns(arg)[t].label) /\ (~is_noise_content(CallTurns(arg)[t].content)) /\ (sentences_of_content(tok, CallTurns(arg)[t].content) # <<>>))

\* the group has the two columns calculate_net_sentiment_scores reads
Scored(group) == {"sentiment", "sentiment_score"} \subseteq group.columns

RECURSIVE ScoreSum(_, _)
ScoreSum(rows, S) == IF S = {} THEN 0 ELSE LET i == CHOOSE j \in S : TRUE IN rows[i].sentiment_score + ScoreSum(rows, S \ {i})

WithoutNeutral(group) == [columns |-> group.columns, rows |-> SelectSeq(group.rows, LAMBDA row : row.label # "Neutral")]

WithNeutral(group, score) == [columns |-> group.columns, rows |-> Append(group.rows, [label |-> "Neutral", sentiment_score |-> score])]

SameValue(a, b) == (a.raised = b.raised) /\ (a.num * b.den = b.num * a.den)

\* C24: calculate_net_sentiment_scores returns (sum of Hawkish scores - sum of
\* Dovish scores) / (hawkish_count + dovish_count), and 0 when that
\* denominator is 0; adding Neutral records to the group or removing them from
\* it, whatever their scores, leaves its result unchanged.
C24_NeutralScoresIgnored == (ScoresComputed /\ Scored(arg)) => (LET h == RowsWith(arg, "Hawkish") d == RowsWith(arg, "Dovish") total == Cardinality(h) + Cardinality(d) IN (res.raised = "") /\ ((total = 0) => (res.num = 0)) /\ ((total > 0) => ((res.den > 0) /\ (res.num * total = (ScoreSum(arg.rows, h) - ScoreSum(arg.rows, d)) * res.den))) /\ SameValue(res, calculate_net_sentiment_scores(WithoutNeutral(arg))) /\ (\A score \in {55, 90} : SameValue(res, calculate_net_sentiment_scores(WithNeutral(arg, score)))))

\* a Hawkish, a Dovish and a Neutral record: (90 - 55) / 2
C24_Witness == ScoresComputed /\ Scored(arg) /\ (RowsWith(arg, "Neutral") # {}) /\ (Cardinality(RowsWith(arg, "Hawkish")) = 1) /\ (Cardinality(RowsWith(arg, "Dovish")) = 1) /\ (res.num = 35) /\ (res.den = 2)

CommonCleaned == op = "clean_common_noise"

Blank(line) == Strip(line) = ""

\* the lines of the raw text as they are, kept when they are non-blank, not
\* made solely of digits and match no artifact pattern
RawSurvivors(text) == SelectSeq(SplitLines(text), LAMBDA line : (~Blank(line)) /\ (~IsDigitStr(line)) /\ (~is_common_artifact(line)))

\* the lines stripped of surrounding whitespace, kept when the stripped line
\* is non-empty, not made solely of digits and matches no artifact pattern
StrippedLines(text) == [i \in 1..Len(SplitLines(text)) |-> Strip(SplitLines(text)[i])]

StrippedSurvivors(text) == SelectSeq(StrippedLines(text), LAMBDA line : (line # "") /\ (~IsDigitStr(line)) /\ (~is_common_artifact(line)))

\* lines of the inputs that the patterns match, and lines they do not match
ArtifactExamples == {"Page 3 of 25", "March 22, 2023", "Transcript of Chair Powell's Press Conference", "see page 4 of 9 for details"}

BodyExamples == {"CHAIR POWELL. Good afternoon.", "  Inflation remains elevated.  ", "FINAL results", "Chair Powell's Press Conference"}

\* C25 as stated: clean_common_noise returns exactly the lines of the raw text
\* that are non-blank, not made solely of digits and match none of its
\* artifact patterns, in their original order and joined by single spaces; its
\* result contains no newline.
C25_ExactlyTheCleanLines == CommonCleaned => ((res = Join(RawSurvivors(arg), " ")) /\ (~Contains(res, "\n")))

\* C25: clean_common_noise strips every line of its surrounding whitespace
\* first, and returns the stripped lines that are non-empty, not made solely
\* of digits and match none of its artifact patterns, in their original order
\* and joined by single spaces; its result contains no newline.
C25_StrippedCleanLines == CommonCleaned => ((res = Join(StrippedSurvivors(arg), " ")) /\ (~Contains(res, "\n")) /\ (\A line \in ArtifactExamples : ~Contains(res, Strip(line))) /\ (\A i \in 1..Len(SplitLines(arg)) : (SplitLines(arg)[i] \in BodyExamples) => Contains(res, Strip(SplitLines(arg)[i]))))

\* a FINAL marker between blanks is dropped and a body line comes back stripped
C25_Witness == CommonCleaned /\ (arg = " FINAL \n  Inflation remains elevated.  ") /\ (res = "Inflation remains elevated.")

NoiseCleaned == op = "_clean_noise"

\* C26: _clean_noise drops only artifact lines: every line of the raw
\* transcript that is non-blank, not digit-only and matches neither a common
\* artifact pattern nor a press-conference title variant is still present in
\* the cleaned text, also when some other line of the same transcript is a
\* title line.  The title patterns are searched in the text clean_common_noise
\* has already joined into one line, so a title anywhere empties the result.
C26_OnlyArtifactLinesDropped == NoiseCleaned => (\A i \in 1..Len(StrippedLines(arg)) : LET line == StrippedLines(arg)[i] IN ((line # "") /\ (~IsDigitStr(line)) /\ (~is_common_artifact(line)) /\ (~is_title_line(line))) => Contains(res, line))

LegacyStructured == op = "clean_and_structure_transcript"

\* the first-occurrence offsets, in the lower-cased cleaned text, of the phrases
\* of qa_start_markers that occur
LegacyMarkerOffsets(text) == LET clean_lower == Lower(full_clean_text(text)) IN {Find(clean_lower, Lower(qa_start_markers[m])) : m \in 1..Len(qa_start_markers)} \ {-1}

\* C27: the earlier structurer clean_and_structure_transcript obeys the same
\* earliest-marker rule: for every transcript its split index equals the
\* smallest first-occurrence offset over all phrases of its own marker list,
\* which is the index _structure_press_conf would compute with that list.  The
\* loop stops at the first phrase of the list that is found instead.
C27_LegacyEarliestMarker == LegacyStructured => (LET offsets == LegacyMarkerOffsets(arg.text) IN IF offsets = {} THEN (res.split_index = -1) ELSE (res.split_index = SetMin(offsets)))

Mapped == op = "map_sentiment"

\* C28: the FinBERT label mapping of the advanced-sentiment script (map_sentiment
\* under a model name containing finbert) assigns the same stance as
\* get_sentiment_label_FinBERT_FOMC to each of the labels positive, negative and
\* neutral: negative gives Dovish and positive gives Hawkish in both.  The
\* script maps negative to Hawkish and positive to Dovish.
C28_SamePolarityInScript == (Mapped /\ Contains(Lower(arg.model_name), "finbert") /\ (arg.label \in {"positive", "negative", "neutral"})) => ((res = get_sentiment_label_FinBERT_FOMC(arg.label)) /\ ((arg.label = "negative") => (res = "Dovish")) /\ ((arg.label = "positive") => (res = "Hawkish")))

NumericLabels == {"LABEL_0", "LABEL_1", "LABEL_2"}

NamesAClass(raw_label) == Contains(Lower(raw_label), "negative") \/ Contains(Lower(raw_label), "positive") \/ Contains(Lower(raw_label), "neutral")

\* what the other family's normalizer returns for the same raw label
OtherFamily(family, raw_label) == IF family = "get_sentiment_label_FinBERT_FOMC" THEN get_sentiment_label_RoBERTa(raw_label) ELSE get_sentiment_label_FinBERT_FOMC(raw_label)

\* C30: the numeric label tables of the two model families are not
\* interchangeable: for every n in {0, 1, 2} get_sentiment_label_FinBERT_FOMC
\* and get_sentiment_label_RoBERTa differ on LABEL_n, while for every label
\* containing the text negative, positive or neutral the two return the same
\* class.
C30_TablesNotInterchangeable == Normalized => (((arg \in NumericLabels) => (res # OtherFamily(op, arg))) /\ (NamesAClass(arg) => (res = OtherFamily(op, arg))))

\* LABEL_2 is Dovish for FinBERT-FOMC and Hawkish for RoBERTa
C30_Witness == (op = "get_sentiment_label_RoBERTa") /\ (arg = "LABEL_2") /\ (res = "Hawkish") /\ (OtherFamily(op, arg) = "Dovish")

ForceSplitDone == op = "force_split_long_segment"

WindowsOf(segments) == [i \in 1..Len(segments) |-> Split(segments[i])]

\* C29: force_split_long_segment cuts the word sequence of its input into
\* consecutive windows in order: every window except possibly the last has
\* exactly 50 words, the last has 3 to 50 words, a trailing remainder of 1 or
\* 2 words is dropped, and the concatenation of the windows is a prefix of the
\* input's words that omits at most 2 words.
C29_FixedWindows == ForceSplitDone => (LET words == Split(arg) windows == WindowsOf(res) kept == Flatten(windows) IN (\A i \in 1..Len(res) : (res[i] = Join(windows[i], " ")) /\ ((i < Len(res)) => (Len(windows[i]) = 50)) /\ ((i = Len(res)) => ((3 <= Len(windows[i])) /\ (Len(windows[i]) <= 50)))) /\ (Len(kept) <= Len(words)) /\ (kept = SubSeq(words, 1, Len(kept))) /\ (Len(words) - Len(kept) <= 2) /\ ((Len(words) % 50 \in {1, 2}) <=> (Len(kept) < Len(words))))

\* 102 words: two windows of 50, and the last two words are dropped
C29_Witness == ForceSplitDone /\ (Len(Split(arg)) = 102) /\ (Len(res) = 2) /\ (Len(Split(res[2])) = 50) /\ (Contains(arg, "w102")) /\ (~Contains(res[2], "w101"))

====
